---- MODULE Spec2Model ----
(***************************************************************************)
(* The line-oriented protocol clients of dwmstatus (src/dwmstatus.c): the  *)
(* MPD client (struct mpd_client) and the NUT client (struct nut_client),  *)
(* together with the dwmstatus code that owns them.  Bytes are one-        *)
(* character strings, byte strings are sequences of them.  A client is a   *)
(* record holding the fields of its C structure; every C function is an    *)
(* operator from a client record to a client record.  Fields whose name    *)
(* starts with h_ are history fields: they record what happened and are    *)
(* never read by an operator that models code.  Fields whose name starts    *)
(* with ctx_ are the fields of struct app_context that the client's owner  *)
(* keeps beside the client.                                                *)
(***************************************************************************)
EXTENDS Integers, Sequences, FiniteSets, TLC

VARIABLES
    proto,      \* which of the two independent clients this behaviour exercises
    mpd,        \* struct mpd_client of the application context
    nut,        \* struct nut_client of the application context
    wire,       \* bytes the server has sent that the client has not read yet
    srv,        \* the peer: the bytes it has received and its protocol state
    rt,         \* serializer/tokenizer round trip: the run of one argument list
    ck          \* framer chunking: a chunked and an unchunked run of one stream

vars == <<proto, mpd, nut, wire, srv, rt, ck>>

----------------------------------------------------------------------------
\* Bounds of the model (not program constants).

\* Tasks a client enqueues in one behaviour.
MaxTasks == 4
\* Connections a client establishes in one behaviour.
MaxConns == 2
\* Bytes a short read or a short write leaves behind.
MaxPartial == 1
\* Lines the peer sends on one connection in Spec, and events it notifies
\* in ApiSpec.
MaxServerLines == 2
\* Bursts of lines the peer sends on one connection in OwnerSpec.
MaxOwnerLines == 3
\* Commands inside a command list the owner sends.
MaxListLen == 2
\* Tasks the owner of ApiSpec enqueues in one behaviour.
MaxApiTasks == 3
\* Tasks the owner of OwnerSpec enqueues in one behaviour.
MaxOwnerTasks == 2
\* Arguments of a command in RoundTripSpec, and bytes of an argument.
MaxArgs == 2
MaxArgLen == 2
\* Lines of a stream in ChunkSpec.
MaxStreamLines == 3
\* Bytes of a stream in ParseSpec.
MaxParseLen == 4
\* Tasks the owner and the watchdog may add in WatchdogSpec.
MaxWatchdogTasks == 4
\* Changes the peer may report in WatchdogSpec.
MaxWatchdogEvents == 1

----------------------------------------------------------------------------
\* Byte strings.

LF == "\n"
SP == " "
DQ == "\""
BS == "\\"
SQ == "'"
TAB == "\t"

Digits == {"0", "1", "2", "3", "4", "5", "6", "7", "8", "9"}

\* The code of a byte, as far as the comparisons of the code need it: every
\* byte of the model other than those listed is a printable one above 0x20.
Ord(ch) ==
    CASE ch = TAB -> 9
      [] ch = LF -> 10
      [] ch = "\r" -> 13
      [] ch = SP -> 32
      [] ch = DQ -> 34
      [] ch = SQ -> 39
      [] ch \in Digits -> 48 + (CHOOSE d \in 0..9 : <<"0", "1", "2", "3", "4", "5", "6", "7", "8", "9">>[d + 1] = ch)
      [] ch = BS -> 92
      [] OTHER -> 97

\* The white space of the model's bytes (the model has no vertical tab).
isspace_ascii(ch) == ch \in {SP, "\f", LF, "\r", TAB}

\* The value v under the name the operator F gives it: a local variable.
Bind(v, F(_)) == F(v)

RECURSIVE Flatten(_)
Flatten(ss) == IF ss = <<>> THEN <<>> ELSE Head(ss) \o Flatten(Tail(ss))

\* strncmp (s, p, strlen (p)) == 0
HasPrefix(s, p) == Len(s) >= Len(p) /\ SubSeq(s, 1, Len(p)) = p

\* The first index >= from at which s holds ch, or 0: strchr, and the scan
\* for the newline in mpd_client_process_input.
RECURSIVE IndexFrom(_, _, _)
IndexFrom(s, ch, from) ==
    IF from > Len(s) THEN 0
    ELSE IF s[from] = ch THEN from
    ELSE IndexFrom(s, ch, from + 1)

Range(s) == {s[i] : i \in 1..Len(s)}

\* Literal byte strings of the protocol and of dwmstatus.
S_OK == <<"O", "K">>
\* The null pointer where a string may be.
NULL == <<"NULL">>
S_list_OK == <<"l", "i", "s", "t", "_", "O", "K">>
S_hello == <<"O", "K", " ", "M", "P", "D", " ">>
S_ACK == <<"A", "C", "K", " ", "[">>
S_noidle == <<"n", "o", "i", "d", "l", "e">>
S_idle == <<"i", "d", "l", "e">>
S_ping == <<"p", "i", "n", "g">>
S_list_begin == <<"c", "o", "m", "m", "a", "n", "d", "_", "l", "i", "s", "t", "_", "b", "e", "g", "i", "n">>
S_list_end == <<"c", "o", "m", "m", "a", "n", "d", "_", "l", "i", "s", "t", "_", "e", "n", "d">>
S_currentsong == <<"c", "u", "r", "r", "e", "n", "t", "s", "o", "n", "g">>
S_status == <<"s", "t", "a", "t", "u", "s">>
S_password == <<"p", "a", "s", "s", "w", "o", "r", "d">>
S_close == <<"c", "l", "o", "s", "e">>
S_pause == <<"p", "a", "u", "s", "e">>
S_seekcur == <<"s", "e", "e", "k", "c", "u", "r">>
S_plus10 == <<"+", "1", "0">>
S_changed == <<"c", "h", "a", "n", "g", "e", "d">>
S_player == <<"p", "l", "a", "y", "e", "r">>
S_playlist == <<"p", "l", "a", "y", "l", "i", "s", "t">>
S_mixer == <<"m", "i", "x", "e", "r">>
S_kvsep == <<":", " ">>

----------------------------------------------------------------------------
\* The MPD client: connection state and reset.

\* The rows of MPD_SUBSYSTEM_TABLE the model keeps, in table order.
mpd_subsystem_names == <<S_playlist, S_player, S_mixer>>

\* mpd_client_init, and the zeroed history fields.
MpdClientInit ==
    [state |-> "MPD_DISCONNECTED", connector |-> FALSE, socket |-> -1,
     read_buffer |-> <<>>, write_buffer |-> <<>>, socket_event |-> {},
     timeout_timer |-> FALSE, got_hello |-> FALSE, idling |-> FALSE,
     idling_subsystems |-> {}, in_list |-> FALSE, tasks |-> <<>>,
     data |-> <<>>, on_connected |-> "NULL", on_failure |-> "NULL",
     on_event |-> "NULL",
     ctx_mpd_reconnect |-> TRUE, ctx_password |-> FALSE,
     h_events |-> <<>>, h_accepted |-> <<>>, h_next_id |-> 1, h_done |-> <<>>,
     h_called |-> <<>>, h_dropped |-> {}, h_last_line |-> <<>>,
     h_pending |-> <<>>, h_lines |-> <<>>, h_conns |-> 0, h_aborted |-> FALSE]

\* History: one more thing the current handler did.
Emit(c, e) == [c EXCEPT !.h_events = Append(@, e)]

\* History: a hard_assert of the function `at` has failed; the program is
\* gone.
Abort(c, at) ==
    Emit([c EXCEPT !.h_aborted = TRUE], [kind |-> "abort", at |-> at])

\* History: a handler starts.
Enter(c) == [c EXCEPT !.h_events = <<>>, !.h_accepted = <<>>]

\* The fields of the client an owner callback can observe.
Observe(c) ==
    [state |-> c.state, socket |-> c.socket, connector |-> c.connector,
     read_buffer |-> c.read_buffer, write_buffer |-> c.write_buffer,
     socket_event |-> c.socket_event, timeout_timer |-> c.timeout_timer,
     got_hello |-> c.got_hello, idling |-> c.idling,
     idling_subsystems |-> c.idling_subsystems, in_list |-> c.in_list,
     tasks |-> c.tasks, data |-> c.data]

TaskIds(tasks) == {tasks[i].id : i \in 1..Len(tasks)}

\* The same identifiers in queue order.
Ids(tasks) == [i \in 1..Len(tasks) |-> tasks[i].id]

\* History: a line of a response has arrived.  h_lines holds the lines that
\* arrived on this connection since a task was last completed, each with
\* whether it ends a response and whether it counts as data.
Received(c, line, terminal, data) ==
    [Emit(c, [kind |-> "line", line |-> line, terminal |-> terminal,
              queue |-> Ids(c.tasks)])
     EXCEPT !.h_lines = Append(@, [line |-> line, terminal |-> terminal,
                                   data |-> data])]

mpd_client_destroy_connector(c) ==
    [c EXCEPT !.connector = FALSE, !.state = "MPD_DISCONNECTED"]

\* A faulty mpd_client_reset: the command list in progress is not forgotten.
mpd_client_reset_in_list(c) ==
    [(IF c.state = "MPD_CONNECTING" THEN mpd_client_destroy_connector(c) ELSE c)
               EXCEPT !.socket = -1, !.socket_event = {},
                   !.timeout_timer = FALSE,
                   !.read_buffer = <<>>, !.write_buffer = <<>>,
                   !.data = <<>>,
                   !.got_hello = FALSE, !.idling = FALSE,
                   !.idling_subsystems = {},
                   !.tasks = <<>>,
                   !.state = "MPD_DISCONNECTED",
                   !.h_dropped = @ \cup TaskIds(c.tasks),
                   !.h_last_line = <<>>, !.h_pending = <<>>,
                   !.h_lines = <<>>]

\* A faulty mpd_client_reset: the output buffer is not emptied.
mpd_client_reset_unflushed(c) ==
    [(IF c.state = "MPD_CONNECTING" THEN mpd_client_destroy_connector(c) ELSE c)
               EXCEPT !.socket = -1, !.socket_event = {},
                   !.timeout_timer = FALSE,
                   !.read_buffer = <<>>,
                   !.data = <<>>,
                   !.got_hello = FALSE, !.idling = FALSE,
                   !.idling_subsystems = {}, !.in_list = FALSE,
                   !.tasks = <<>>,
                   !.state = "MPD_DISCONNECTED",
                   !.h_dropped = @ \cup TaskIds(c.tasks),
                   !.h_last_line = <<>>, !.h_pending = <<>>,
                   !.h_lines = <<>>]

mpd_client_reset(c) ==
    [(IF c.state = "MPD_CONNECTING" THEN mpd_client_destroy_connector(c) ELSE c)
               EXCEPT !.socket = -1, !.socket_event = {},
                   !.timeout_timer = FALSE,
                   !.read_buffer = <<>>, !.write_buffer = <<>>,
                   !.data = <<>>,
                   !.got_hello = FALSE, !.idling = FALSE,
                   !.idling_subsystems = {}, !.in_list = FALSE,
                   !.tasks = <<>>,
                   !.state = "MPD_DISCONNECTED",
                   !.h_dropped = @ \cup TaskIds(c.tasks),
                   !.h_last_line = <<>>, !.h_pending = <<>>,
                   !.h_lines = <<>>]

mpd_queue_reconnect(c) == [c EXCEPT !.ctx_mpd_reconnect = TRUE]

\* A faulty mpd_on_failure: the reconnect timer is left alone.
mpd_on_failure_silent(c) == c

mpd_on_failure(c) == mpd_queue_reconnect(c)

\* A faulty mpd_client_fail: the owner is told before the client is reset.
mpd_client_fail_early(c) ==
    mpd_client_reset(
        mpd_on_failure(
            Emit(Emit(c, [kind |-> "fail", queued |-> TaskIds(c.tasks),
                          before |-> Observe(c)]),
                 [kind |-> "on_failure", seen |-> Observe(c)])))

mpd_client_fail(c) ==
    Bind(mpd_client_reset(
             Emit(c, [kind |-> "fail", queued |-> TaskIds(c.tasks),
                      before |-> Observe(c)])),
         LAMBDA c1 :
             IF c1.on_failure # "NULL"
             THEN mpd_on_failure(
                      Emit(c1, [kind |-> "on_failure", seen |-> Observe(c1)]))
             ELSE c1)

----------------------------------------------------------------------------
\* The MPD client: serializing commands, tasks, lists and idle.

mpd_client_must_quote_char(ch) == Ord(ch) <= Ord(SP) \/ ch = DQ \/ ch = SQ

mpd_client_must_quote(s) ==
    s = <<>> \/ \E i \in 1..Len(s) : mpd_client_must_quote_char(s[i])

\* A different mpd_client_quote: only the double quote is escaped.
mpd_client_quote_bare(s) ==
    <<DQ>>
    \o Flatten([i \in 1..Len(s) |->
           IF s[i] = DQ THEN <<BS, s[i]>> ELSE <<s[i]>>])
    \o <<DQ>>

mpd_client_quote(s) ==
    <<DQ>>
    \o Flatten([i \in 1..Len(s) |->
           IF mpd_client_must_quote_char(s[i]) THEN <<BS, s[i]>> ELSE <<s[i]>>])
    \o <<DQ>>

\* The loop of mpd_client_send_commandv that builds the line.
RECURSIVE MpdSerialize(_)
MpdSerialize(commands) ==
    IF commands = <<>> THEN <<>>
    ELSE Bind(MpdSerialize(SubSeq(commands, 1, Len(commands) - 1)),
              LAMBDA line :
                  (IF line # <<>> THEN line \o <<SP>> ELSE line)
                  \o Bind(commands[Len(commands)],
                          LAMBDA arg :
                              IF mpd_client_must_quote(arg)
                              THEN mpd_client_quote(arg) ELSE arg))

mpd_client_update_poller(c) ==
    [c EXCEPT !.socket_event =
        IF c.write_buffer # <<>> THEN {"POLLIN", "POLLOUT"} ELSE {"POLLIN"}]

\* mpd_client_send_commandv past the interruption of idle mode.
MpdAppendLine(c, commands) ==
    Bind(MpdSerialize(commands),
         LAMBDA line :
             mpd_client_update_poller(
                 [c EXCEPT !.write_buffer = @ \o line \o <<LF>>,
                           !.h_last_line = line,
                           !.h_pending = Append(@, line)]))

\* A faulty mpd_client_send_commandv: idle mode is not interrupted.
mpd_client_send_commandv_plain(c, commands) ==
    IF c.h_aborted THEN c ELSE MpdAppendLine(c, commands)

mpd_client_send_commandv(c, commands) ==
    IF c.h_aborted THEN c
    ELSE IF c.idling
    THEN MpdAppendLine(
             MpdAppendLine([c EXCEPT !.timeout_timer = FALSE,
                                     !.idling = FALSE,
                                     !.idling_subsystems = {}],
                           <<S_noidle>>),
             commands)
    ELSE MpdAppendLine(c, commands)

\* A faulty mpd_client_add_task: the task is linked at the head of the queue.
mpd_client_add_task_first(c, cb) ==
    IF c.h_aborted THEN c
    ELSE IF c.in_list THEN Abort(c, "mpd_client_add_task")
    ELSE [c EXCEPT !.tasks = <<[callback |-> cb, id |-> c.h_next_id,
                                lines |-> c.h_pending]>> \o @,
                   !.h_next_id = @ + 1,
                   !.h_pending = <<>>]

mpd_client_add_task(c, cb) ==
    IF c.h_aborted THEN c
    ELSE IF c.in_list THEN Abort(c, "mpd_client_add_task")
    ELSE [c EXCEPT !.tasks = Append(@, [callback |-> cb, id |-> c.h_next_id,
                                        lines |-> c.h_pending]),
                   !.h_next_id = @ + 1,
                   !.h_pending = <<>>]

mpd_client_list_begin(c) ==
    IF c.h_aborted THEN c
    ELSE IF c.in_list THEN Abort(c, "mpd_client_list_begin")
    ELSE [mpd_client_send_commandv(c, <<S_list_begin>>) EXCEPT !.in_list = TRUE]

\* A faulty mpd_client_list_end: the end of the list gets a task of its own.
mpd_client_list_end_task(c) ==
    IF c.h_aborted THEN c
    ELSE IF ~c.in_list THEN Abort(c, "mpd_client_list_end")
    ELSE mpd_client_add_task(
             [mpd_client_send_commandv(c, <<S_list_end>>)
                  EXCEPT !.in_list = FALSE],
             "NULL")

mpd_client_list_end(c) ==
    IF c.h_aborted THEN c
    ELSE IF ~c.in_list THEN Abort(c, "mpd_client_list_end")
    ELSE [mpd_client_send_commandv(c, <<S_list_end>>) EXCEPT !.in_list = FALSE]

\* The argument vector mpd_client_idle builds for a set of subsystems.
MpdIdleCommand(subsystems) ==
    <<S_idle>> \o SelectSeq(mpd_subsystem_names, LAMBDA n : n \in subsystems)

\* A faulty mpd_client_idle: the client does not note that it idles.
mpd_client_idle_unflagged(c, subsystems) ==
    IF c.h_aborted THEN c
    ELSE IF c.in_list THEN Abort(c, "mpd_client_idle")
    ELSE mpd_client_add_task(
             [mpd_client_send_commandv(c, MpdIdleCommand(subsystems))
                  EXCEPT !.timeout_timer = TRUE],
             "mpd_client_on_idle_return")

\* A faulty mpd_client_idle: the client does not note what it idles for.
mpd_client_idle_maskless(c, subsystems) ==
    IF c.h_aborted THEN c
    ELSE IF c.in_list THEN Abort(c, "mpd_client_idle")
    ELSE [mpd_client_add_task(
              [mpd_client_send_commandv(c, MpdIdleCommand(subsystems))
                   EXCEPT !.timeout_timer = TRUE],
              "mpd_client_on_idle_return")
          EXCEPT !.idling = TRUE]

mpd_client_idle(c, subsystems) ==
    IF c.h_aborted THEN c
    ELSE IF c.in_list THEN Abort(c, "mpd_client_idle")
    ELSE [mpd_client_add_task(
              [mpd_client_send_commandv(c, MpdIdleCommand(subsystems))
                   EXCEPT !.timeout_timer = TRUE],
              "mpd_client_on_idle_return")
          EXCEPT !.idling = TRUE, !.idling_subsystems = subsystems]

\* A different mpd_client_on_timeout: idle mode is not restored with the
\* ping.
mpd_client_on_timeout_deferring(c) ==
    mpd_client_add_task(mpd_client_send_commandv(c, <<S_ping>>), "NULL")

\* A faulty mpd_client_on_timeout: the idle task at the head of the queue
\* is completed by the watchdog itself.
mpd_client_on_timeout_completing(c) ==
    IF c.tasks = <<>> THEN c
    ELSE [Emit(c, [kind |-> "task_cb", id |-> Head(c.tasks).id,
                   callback |-> Head(c.tasks).callback,
                   lines |-> Head(c.tasks).lines,
                   response |-> [success |-> TRUE], data |-> c.data,
                   queue |-> Ids(c.tasks), received |-> c.h_lines])
          EXCEPT !.tasks = Tail(@),
                 !.idling = FALSE,
                 !.h_called = Append(@, Head(c.tasks).id),
                 !.h_done = Append(@, [id |-> Head(c.tasks).id,
                                       callback |-> Head(c.tasks).callback])]

mpd_client_on_timeout(c) ==
    mpd_client_idle(
        mpd_client_add_task(mpd_client_send_commandv(c, <<S_ping>>), "NULL"),
        c.idling_subsystems)

----------------------------------------------------------------------------
\* The MPD client: the owner's callbacks in dwmstatus.

\* A faulty mpd_request_info: the command list is not closed before its
\* task is added.
mpd_request_info_open(c) ==
    mpd_client_idle(
        mpd_client_add_task(
            mpd_client_send_commandv(
                mpd_client_send_commandv(
                    mpd_client_list_begin(c), <<S_currentsong>>),
                <<S_status>>),
            "mpd_on_info_response"),
        {})

mpd_request_info(c) ==
    mpd_client_idle(
        mpd_client_add_task(
            mpd_client_list_end(
                mpd_client_send_commandv(
                    mpd_client_send_commandv(
                        mpd_client_list_begin(c), <<S_currentsong>>),
                    <<S_status>>)),
            "mpd_on_info_response"),
        {})

mpd_on_events(c, subsystems) ==
    IF subsystems \cap {S_player, S_playlist} # {}
    THEN mpd_request_info(c)
    ELSE mpd_client_idle(c, {})

\* It only rebuilds the status texts of the bar; the client is left alone.
mpd_on_info_response(c, response, data) == c

mpd_on_password_response(c, response, data) ==
    IF response.success THEN mpd_request_info(c)
    ELSE mpd_client_send_commandv(c, <<S_close>>)

mpd_on_connected(c) ==
    IF c.ctx_password
    THEN mpd_client_add_task(
             mpd_client_send_commandv(c, <<S_password, <<"p", "w">>>>),
             "mpd_on_password_response")
    ELSE mpd_request_info(c)

----------------------------------------------------------------------------
\* The MPD client: parsing and dispatching responses.

tolower_ascii(ch) ==
    LET upper == <<"A", "C", "D", "K", "M", "O", "P">>
        lower == <<"a", "c", "d", "k", "m", "o", "p">>
    IN  IF \E i \in 1..Len(upper) : upper[i] = ch
        THEN lower[CHOOSE i \in 1..Len(upper) : upper[i] = ch]
        ELSE ch

\* strcasecmp_ascii (a, b) == 0
EqualNoCase(a, b) ==
    Len(a) = Len(b)
    /\ \A i \in 1..Len(a) : tolower_ascii(a[i]) = tolower_ascii(b[i])

\* The first index at which s holds the separator ": ", or 0: strstr.
RECURSIVE KvSep(_, _)
KvSep(s, from) ==
    IF from + 1 > Len(s) THEN 0
    ELSE IF s[from] = ":" /\ s[from + 1] = SP THEN from
    ELSE KvSep(s, from + 1)

\* mpd_client_parse_kv: key and value of a line, found FALSE without ": ".
mpd_client_parse_kv(line) ==
    Bind(KvSep(line, 1),
         LAMBDA sep :
             IF sep = 0 THEN [found |-> FALSE, key |-> <<>>, value |-> <<>>]
             ELSE [found |-> TRUE, key |-> SubSeq(line, 1, sep - 1),
                   value |-> SubSeq(line, sep + 2, Len(line))])

\* mpd_resolve_subsystem: the subsystems a name stands for (none, or one).
mpd_resolve_subsystem(name) ==
    {mpd_subsystem_names[i] : i \in {j \in 1..Len(mpd_subsystem_names) :
                                       EqualNoCase(name, mpd_subsystem_names[j])}}

\* The subsystems named by the "changed" lines of an idle response.
MpdChangedSubsystems(data) ==
    UNION {Bind(mpd_client_parse_kv(data[i]),
                LAMBDA kv :
                    IF kv.found /\ EqualNoCase(kv.key, S_changed)
                    THEN mpd_resolve_subsystem(kv.value) ELSE {})
           : i \in 1..Len(data)}

\* A faulty mpd_client_on_idle_return: the owner is told of every return
\* from idle mode.
mpd_client_on_idle_return_always(c, response, data) ==
    Bind(MpdChangedSubsystems(data),
         LAMBDA subsystems :
             IF c.on_event # "NULL"
             THEN mpd_on_events(
                      Emit(c, [kind |-> "on_event", subsystems |-> subsystems]),
                      subsystems)
             ELSE c)

mpd_client_on_idle_return(c, response, data) ==
    Bind(MpdChangedSubsystems(data),
         LAMBDA subsystems :
             IF c.on_event # "NULL" /\ subsystems # {}
             THEN mpd_on_events(
                      Emit(c, [kind |-> "on_event", subsystems |-> subsystems]),
                      subsystems)
             ELSE c)

\* The digits at the front of s, as strtoul (s, &end, 10) reads them after
\* optional white space and an optional sign: value, and the rest of s.
\* Without digits end stays at s.  The numbers of the model fit unsigned long.
RECURSIVE DigitRun(_, _, _)
DigitRun(s, i, acc) ==
    IF i <= Len(s) /\ s[i] \in Digits
    THEN DigitRun(s, i + 1, 10 * acc + (Ord(s[i]) - Ord("0")))
    ELSE [value |-> acc, next |-> i]

RECURSIVE SkipSpace(_, _)
SkipSpace(s, i) ==
    IF i <= Len(s) /\ isspace_ascii(s[i]) THEN SkipSpace(s, i + 1)
    ELSE i

\* strtoul from the index i on, the first byte that is not white space.
StrtoulAt(s, i, signed) ==
    Bind(DigitRun(s, IF signed THEN i + 1 ELSE i, 0),
         LAMBDA run :
             IF run.next = (IF signed THEN i + 1 ELSE i)
             THEN [ok |-> FALSE, value |-> 0, rest |-> s]
             ELSE [ok |-> TRUE,
                   value |-> IF signed /\ s[i] = "-" THEN 0 - run.value
                             ELSE run.value,
                   rest |-> SubSeq(s, run.next, Len(s))])

strtoul(s) ==
    Bind(SkipSpace(s, 1),
         LAMBDA i : StrtoulAt(s, i, i <= Len(s) /\ s[i] \in {"+", "-"}))

MpdNoResponse ==
    [matched |-> FALSE, abort |-> FALSE, success |-> FALSE, error |-> 0,
     list_offset |-> 0, current_command |-> <<>>, message_text |-> <<>>]

\* mpd_client_parse_response from the end of the offset on: e and o are the
\* error and the offset as strtoul read them, close the index of "}".
MpdParseAckTail(e, o, close) ==
    IF ~o.ok \/ ~HasPrefix(o.rest, <<"]", SP, "{">>) \/ close = 0
    THEN MpdNoResponse
    ELSE IF ~(close + 1 <= Len(o.rest) /\ o.rest[close + 1] = SP)
    THEN MpdNoResponse
    ELSE [matched |-> TRUE, abort |-> FALSE, success |-> FALSE,
          error |-> e.value, list_offset |-> o.value,
          current_command |-> SubSeq(o.rest, 4, close - 1),
          message_text |-> SubSeq(o.rest, close + 2, Len(o.rest))]

\* mpd_client_parse_response: matched is its result, abort its failed
\* hard_assert; the other fields are those of struct mpd_response.
mpd_client_parse_response(p) ==
    IF p = S_OK THEN [MpdNoResponse EXCEPT !.matched = TRUE, !.success = TRUE]
    ELSE IF p = S_list_OK THEN [MpdNoResponse EXCEPT !.abort = TRUE]
    ELSE IF ~HasPrefix(p, S_ACK) THEN MpdNoResponse
    ELSE Bind(strtoul(SubSeq(p, Len(S_ACK) + 1, Len(p))),
              LAMBDA e :
                  IF ~e.ok \/ ~HasPrefix(e.rest, <<"@">>) THEN MpdNoResponse
                  ELSE Bind(strtoul(Tail(e.rest)),
                            LAMBDA o : MpdParseAckTail(e, o,
                                           IndexFrom(o.rest, "}", 4))))

\* The call of a task's callback in mpd_client_dispatch.
MpdCall(c, callback, response, data) ==
    CASE callback = "mpd_client_on_idle_return" ->
             mpd_client_on_idle_return(c, response, data)
      [] callback = "mpd_on_info_response" ->
             mpd_on_info_response(c, response, data)
      [] callback = "mpd_on_password_response" ->
             mpd_on_password_response(c, response, data)
      [] OTHER -> c

\* The same call, entered in the history.
MpdInvoke(c, task, response) ==
    MpdCall([Emit(c, [kind |-> "task_cb", id |-> task.id,
                      callback |-> task.callback, lines |-> task.lines,
                      response |-> response, data |-> c.data,
                      queue |-> Ids(c.tasks), received |-> c.h_lines])
             EXCEPT !.h_called = Append(@, task.id)],
            task.callback, response, c.data)

\* A faulty mpd_client_dispatch: the accumulated data is kept.
MpdDispatchTaskDirty(c, task, response) ==
    [(IF task.callback # "NULL" THEN MpdInvoke(c, task, response) ELSE c)
     EXCEPT !.tasks = Tail(@),
            !.h_lines = <<>>,
            !.h_done = Append(@, [id |-> task.id, callback |-> task.callback])]

\* A faulty mpd_client_dispatch: the task is not unlinked.
MpdDispatchTaskKept(c, task, response) ==
    [(IF task.callback # "NULL" THEN MpdInvoke(c, task, response) ELSE c)
     EXCEPT !.data = <<>>,
            !.h_lines = <<>>,
            !.h_done = Append(@, [id |-> task.id, callback |-> task.callback])]

\* mpd_client_dispatch with a task at the head of the queue.
MpdDispatchTask(c, task, response) ==
    [(IF task.callback # "NULL" THEN MpdInvoke(c, task, response) ELSE c)
     EXCEPT !.data = <<>>,
            !.tasks = Tail(@),
            !.h_lines = <<>>,
            !.h_done = Append(@, [id |-> task.id, callback |-> task.callback])]

mpd_client_dispatch(c, response) ==
    IF c.tasks = <<>> THEN c
    ELSE MpdDispatchTask(c, Head(c.tasks), response)

\* The result of a parsing step: the client, and whether the step succeeded.
Ok(c) == [ok |-> TRUE, c |-> c]
Failed(c) == [ok |-> FALSE, c |-> c]

\* A faulty mpd_client_parse_hello: any first line passes for the greeting.
mpd_client_parse_hello_lax(c, line) == Ok([c EXCEPT !.got_hello = TRUE])

mpd_client_parse_hello(c, line) ==
    IF ~HasPrefix(line, S_hello) THEN Failed(c)
    ELSE Ok([c EXCEPT !.got_hello = TRUE])

\* A faulty mpd_client_parse_line: a failure response fails the connection.
mpd_client_parse_line_fatal(c, line) ==
    IF ~c.got_hello THEN mpd_client_parse_hello(c, line)
    ELSE Bind(mpd_client_parse_response(line),
              LAMBDA response :
                  IF response.abort THEN Ok(Abort(c, "mpd_client_parse_response"))
                  ELSE IF response.matched /\ ~response.success
                  THEN Failed(Received(c, line, TRUE, FALSE))
                  ELSE IF response.matched
                  THEN Ok(mpd_client_dispatch(
                           Received(c, line, TRUE, FALSE), response))
                  ELSE Ok([Received(c, line, FALSE, TRUE)
                           EXCEPT !.data = Append(@, line)]))

\* A faulty mpd_client_parse_line: a line that looks like a greeting is
\* taken for one at any time.
mpd_client_parse_line_regreet(c, line) ==
    IF ~c.got_hello \/ HasPrefix(line, S_hello)
    THEN mpd_client_parse_hello(
             Emit(c, [kind |-> "line", line |-> line, terminal |-> FALSE,
                      queue |-> Ids(c.tasks)]),
             line)
    ELSE Bind(mpd_client_parse_response(line),
              LAMBDA response :
                  IF response.abort THEN Ok(Abort(c, "mpd_client_parse_response"))
                  ELSE IF response.matched
                  THEN Ok(mpd_client_dispatch(
                           Received(c, line, TRUE, FALSE), response))
                  ELSE Ok([Received(c, line, FALSE, TRUE)
                           EXCEPT !.data = Append(@, line)]))

mpd_client_parse_line(c, line) ==
    IF ~c.got_hello
    THEN mpd_client_parse_hello(
             Emit(c, [kind |-> "line", line |-> line, terminal |-> FALSE,
                      queue |-> Ids(c.tasks)]),
             line)
    ELSE Bind(mpd_client_parse_response(line),
              LAMBDA response :
                  IF response.abort THEN Ok(Abort(c, "mpd_client_parse_response"))
                  ELSE IF response.matched
                  THEN Ok(mpd_client_dispatch(
                           Received(c, line, TRUE, FALSE), response))
                  ELSE Ok([Received(c, line, FALSE, TRUE)
                           EXCEPT !.data = Append(@, line)]))

\* The loop of mpd_client_process_input from the byte at index start on.
RECURSIVE MpdProcessFrom(_, _)
MpdProcessFrom(c, start) ==
    IF c.h_aborted THEN Ok(c)
    ELSE Bind(IndexFrom(c.read_buffer, LF, start),
              LAMBDA p :
                  IF p = 0
                  THEN Ok([c EXCEPT !.read_buffer = SubSeq(@, start, Len(@))])
                  ELSE Bind(mpd_client_parse_line(
                                c, SubSeq(c.read_buffer, start, p - 1)),
                            LAMBDA r :
                                IF ~r.ok THEN r
                                ELSE MpdProcessFrom(r.c, p + 1)))

\* A faulty mpd_client_process_input: a partial line is thrown away.
mpd_client_process_input_greedy(c) ==
    Bind(MpdProcessFrom(c, 1),
         LAMBDA r : IF r.ok THEN Ok([r.c EXCEPT !.read_buffer = <<>>]) ELSE r)

mpd_client_process_input(c) == MpdProcessFrom(c, 1)

----------------------------------------------------------------------------
\* Socket input and output.  What recv and send do is the environment's
\* choice: a read is the bytes received and how the loop ended, a write is
\* how much of the buffer the socket takes and how the loop ended.

ReadResult(bytes, result) == [bytes |-> bytes, result |-> result]
WriteResult(take, result) == [take |-> take, result |-> result]

\* socket_io_try_read: the buffer afterwards.
socket_io_try_read(rb, rd) == rb \o rd.bytes

\* The number of bytes socket_io_try_write gets rid of: all of the buffer,
\* or all but its last MaxPartial bytes when send () would block early.
Accepted(wb, wr) ==
    CASE wr.take = "all" -> Len(wb)
      [] wr.take = "some" -> IF Len(wb) <= MaxPartial THEN 0 ELSE Len(wb) - MaxPartial
      [] OTHER -> 0

\* A faulty socket_io_try_write: the buffer is emptied whatever send () took.
socket_io_try_write_all(wb, wr) == <<>>

\* socket_io_try_write: the buffer afterwards.
socket_io_try_write(wb, wr) == SubSeq(wb, Accepted(wb, wr) + 1, Len(wb))

----------------------------------------------------------------------------
\* The MPD client: readiness events and connecting.

\* A faulty end of mpd_client_on_ready: the events asked for are left as
\* they were.
MpdTryWriteStale(c, wr) ==
    Bind([c EXCEPT !.write_buffer = socket_io_try_write(@, wr),
                   !.h_accepted = SubSeq(c.write_buffer, 1,
                                         Accepted(c.write_buffer, wr))],
         LAMBDA c2 :
             IF wr.result # "SOCKET_IO_OK" THEN mpd_client_fail(c2) ELSE c2)

\* The POLLOUT half of mpd_client_on_ready; h_accepted is what the socket took.
MpdTryWrite(c, wr) ==
    Bind([c EXCEPT !.write_buffer = socket_io_try_write(@, wr),
                   !.h_accepted = SubSeq(c.write_buffer, 1,
                                         Accepted(c.write_buffer, wr))],
         LAMBDA c2 :
             IF wr.result # "SOCKET_IO_OK" THEN mpd_client_fail(c2)
             ELSE mpd_client_update_poller(c2))

\* History: a readiness handler has read from the socket.
HasRead(c, rd) ==
    Emit([c EXCEPT !.read_buffer = socket_io_try_read(@, rd)],
         [kind |-> "read", bytes |-> rd.bytes, result |-> rd.result])

\* A different mpd_client_on_ready: the input is processed whether or not
\* the read succeeded, as nut_client_on_ready does.
mpd_client_on_ready_processing(c, rd, wr) ==
    Bind(mpd_client_process_input(HasRead(c, rd)),
         LAMBDA r :
             IF ~r.ok \/ rd.result # "SOCKET_IO_OK" THEN mpd_client_fail(r.c)
             ELSE IF r.c.h_aborted THEN r.c
             ELSE MpdTryWrite(r.c, wr))

mpd_client_on_ready(c, rd, wr) ==
    IF rd.result # "SOCKET_IO_OK"
    THEN mpd_client_fail(HasRead(c, rd))
    ELSE Bind(mpd_client_process_input(HasRead(c, rd)),
              LAMBDA r :
                  IF ~r.ok THEN mpd_client_fail(r.c)
                  ELSE IF r.c.h_aborted THEN r.c
                  ELSE MpdTryWrite(r.c, wr))

mpd_client_finish_connection(c, socket) ==
    Bind(mpd_client_update_poller(
             [c EXCEPT !.socket = socket, !.state = "MPD_CONNECTED"]),
         LAMBDA c1 :
             IF c1.on_connected # "NULL"
             THEN mpd_on_connected(
                      Emit(c1, [kind |-> "on_connected", seen |-> Observe(c1)]))
             ELSE c1)

mpd_client_on_connector_failure(c) ==
    mpd_client_fail(mpd_client_destroy_connector(c))

mpd_client_on_connector_connected(c, socket) ==
    mpd_client_finish_connection(mpd_client_destroy_connector(c), socket)

\* how: what socket () and connect () do, "ok", "socket" (the first fails)
\* or "connect" (the second fails).
\* History: the event "socket" records the descriptor socket () returned;
\* the function has no close ().
mpd_client_connect_unix(c, how, socket) ==
    IF how = "socket" THEN Failed(c)
    ELSE Bind(Emit(c, [kind |-> "socket", fd |-> socket]),
              LAMBDA c1 :
                  IF how = "connect" THEN Failed(c1)
                  ELSE Ok(mpd_client_finish_connection(c1, socket)))

\* unix: the configured address holds a slash.
mpd_client_connect(c, unix, how, socket) ==
    IF c.state # "MPD_DISCONNECTED"
    THEN Ok(Emit([c EXCEPT !.h_aborted = TRUE],
                 [kind |-> "abort", at |-> "mpd_client_connect"]))
    ELSE IF unix THEN mpd_client_connect_unix(c, how, socket)
    ELSE Ok([c EXCEPT !.connector = TRUE, !.state = "MPD_CONNECTING"])

\* The reconnect timer of dwmstatus fires.
on_mpd_reconnect(c, unix, how, socket) ==
    Bind(mpd_client_connect(
             [c EXCEPT !.ctx_mpd_reconnect = FALSE,
                       !.on_failure = "mpd_on_failure",
                       !.on_connected = "mpd_on_connected",
                       !.on_event = "mpd_on_events",
                       !.h_conns = @ + 1],
             unix, how, socket),
         LAMBDA r : IF ~r.ok THEN mpd_queue_reconnect(r.c) ELSE r.c)

\* A key bound to an MPD_SIMPLE action is pressed.
on_mpd_simple(c, commands) ==
    IF c.state # "MPD_CONNECTED" THEN c
    ELSE mpd_client_idle(
             mpd_client_add_task(mpd_client_send_commandv(c, commands), "NULL"),
             {})

----------------------------------------------------------------------------
\* The NUT protocol: tokenizer and serializer.

N_BEGIN == <<"B", "E", "G", "I", "N">>
N_END == <<"E", "N", "D">>
N_LIST == <<"L", "I", "S", "T">>
N_ERR == <<"E", "R", "R">>
N_UPS == <<"U", "P", "S">>
N_VAR == <<"V", "A", "R">>
N_LOGOUT == <<"L", "O", "G", "O", "U", "T">>

\* nut_parser_init
NutParserInit ==
    [state |-> "NUT_STATE_START_LINE", current_field |-> <<>>, fields |-> <<>>]

\* The result of nut_parser_push: 1, 0 or -1, and the parser afterwards.
Pushed(res, parser) == [res |-> res, parser |-> parser]

nut_parser_end_field(self, ch) ==
    IF ch = LF
    THEN Pushed(1, [self EXCEPT !.fields = Append(@, self.current_field),
                                !.current_field = <<>>,
                                !.state = "NUT_STATE_START_LINE"])
    ELSE Pushed(0, [self EXCEPT !.fields = Append(@, self.current_field),
                                !.current_field = <<>>,
                                !.state = "NUT_STATE_BETWEEN"])

\* A faulty case NUT_STATE_BETWEEN: a line feed ends a line whether or not
\* the line has fields.
NutPushBetweenEager(self, ch) ==
    IF ch = BS THEN Pushed(0, [self EXCEPT !.state = "NUT_STATE_UNQUOTED_ESCAPE"])
    ELSE IF ch = DQ THEN Pushed(0, [self EXCEPT !.state = "NUT_STATE_QUOTED"])
    ELSE IF ch = LF
    THEN Pushed(1, [self EXCEPT !.state = "NUT_STATE_START_LINE"])
    ELSE IF ~isspace_ascii(ch)
    THEN Pushed(0, [self EXCEPT !.current_field = Append(@, ch),
                                !.state = "NUT_STATE_UNQUOTED"])
    ELSE Pushed(0, self)

\* case NUT_STATE_BETWEEN of nut_parser_push
NutPushBetween(self, ch) ==
    IF ch = BS THEN Pushed(0, [self EXCEPT !.state = "NUT_STATE_UNQUOTED_ESCAPE"])
    ELSE IF ch = DQ THEN Pushed(0, [self EXCEPT !.state = "NUT_STATE_QUOTED"])
    ELSE IF ch = LF /\ self.fields # <<>>
    THEN Pushed(1, [self EXCEPT !.state = "NUT_STATE_START_LINE"])
    ELSE IF ~isspace_ascii(ch)
    THEN Pushed(0, [self EXCEPT !.current_field = Append(@, ch),
                                !.state = "NUT_STATE_UNQUOTED"])
    ELSE Pushed(0, self)

\* A different nut_parser_push: a line feed ends a quoted field that was
\* never closed with an error.
nut_parser_push_strict(self, ch) ==
    IF self.state \in {"NUT_STATE_QUOTED", "NUT_STATE_QUOTED_ESCAPE"} /\ ch = LF
    THEN Pushed(-1, self)
    ELSE CASE self.state = "NUT_STATE_START_LINE" ->
             NutPushBetween([self EXCEPT !.fields = <<>>,
                                         !.current_field = <<>>,
                                         !.state = "NUT_STATE_BETWEEN"], ch)
      [] self.state = "NUT_STATE_BETWEEN" -> NutPushBetween(self, ch)
      [] self.state = "NUT_STATE_UNQUOTED" ->
             IF ch = BS
             THEN Pushed(0, [self EXCEPT !.state = "NUT_STATE_UNQUOTED_ESCAPE"])
             ELSE IF ch = DQ THEN Pushed(-1, self)
             ELSE IF ~isspace_ascii(ch)
             THEN Pushed(0, [self EXCEPT !.current_field = Append(@, ch)])
             ELSE nut_parser_end_field(self, ch)
      [] self.state = "NUT_STATE_UNQUOTED_ESCAPE" ->
             Pushed(0, [self EXCEPT !.current_field = Append(@, ch),
                                    !.state = "NUT_STATE_UNQUOTED"])
      [] self.state = "NUT_STATE_QUOTED" ->
             IF ch = BS
             THEN Pushed(0, [self EXCEPT !.state = "NUT_STATE_QUOTED_ESCAPE"])
             ELSE IF ch = DQ
             THEN Pushed(0, [self EXCEPT !.state = "NUT_STATE_QUOTED_END"])
             ELSE Pushed(0, [self EXCEPT !.current_field = Append(@, ch)])
      [] self.state = "NUT_STATE_QUOTED_ESCAPE" ->
             Pushed(0, [self EXCEPT !.current_field = Append(@, ch),
                                    !.state = "NUT_STATE_QUOTED"])
      [] self.state = "NUT_STATE_QUOTED_END" ->
             IF ~isspace_ascii(ch) THEN Pushed(-1, self)
             ELSE nut_parser_end_field(self, ch)

\* A faulty nut_parser_push: a byte right after a closing quote, or a quote
\* inside an unquoted field, is taken into the field.
nut_parser_push_lenient(self, ch) ==
    CASE self.state = "NUT_STATE_START_LINE" ->
             NutPushBetween([self EXCEPT !.fields = <<>>,
                                         !.current_field = <<>>,
                                         !.state = "NUT_STATE_BETWEEN"], ch)
      [] self.state = "NUT_STATE_BETWEEN" -> NutPushBetween(self, ch)
      [] self.state = "NUT_STATE_UNQUOTED" ->
             IF ch = BS
             THEN Pushed(0, [self EXCEPT !.state = "NUT_STATE_UNQUOTED_ESCAPE"])
             ELSE IF ~isspace_ascii(ch)
             THEN Pushed(0, [self EXCEPT !.current_field = Append(@, ch)])
             ELSE nut_parser_end_field(self, ch)
      [] self.state = "NUT_STATE_UNQUOTED_ESCAPE" ->
             Pushed(0, [self EXCEPT !.current_field = Append(@, ch),
                                    !.state = "NUT_STATE_UNQUOTED"])
      [] self.state = "NUT_STATE_QUOTED" ->
             IF ch = BS
             THEN Pushed(0, [self EXCEPT !.state = "NUT_STATE_QUOTED_ESCAPE"])
             ELSE IF ch = DQ
             THEN Pushed(0, [self EXCEPT !.state = "NUT_STATE_QUOTED_END"])
             ELSE Pushed(0, [self EXCEPT !.current_field = Append(@, ch)])
      [] self.state = "NUT_STATE_QUOTED_ESCAPE" ->
             Pushed(0, [self EXCEPT !.current_field = Append(@, ch),
                                    !.state = "NUT_STATE_QUOTED"])
      [] self.state = "NUT_STATE_QUOTED_END" ->
             IF ~isspace_ascii(ch)
             THEN Pushed(0, [self EXCEPT !.current_field = Append(@, ch),
                                         !.state = "NUT_STATE_UNQUOTED"])
             ELSE nut_parser_end_field(self, ch)

nut_parser_push(self, ch) ==
    CASE self.state = "NUT_STATE_START_LINE" ->
             NutPushBetween([self EXCEPT !.fields = <<>>,
                                         !.current_field = <<>>,
                                         !.state = "NUT_STATE_BETWEEN"], ch)
      [] self.state = "NUT_STATE_BETWEEN" -> NutPushBetween(self, ch)
      [] self.state = "NUT_STATE_UNQUOTED" ->
             IF ch = BS
             THEN Pushed(0, [self EXCEPT !.state = "NUT_STATE_UNQUOTED_ESCAPE"])
             ELSE IF ch = DQ THEN Pushed(-1, self)
             ELSE IF ~isspace_ascii(ch)
             THEN Pushed(0, [self EXCEPT !.current_field = Append(@, ch)])
             ELSE nut_parser_end_field(self, ch)
      [] self.state = "NUT_STATE_UNQUOTED_ESCAPE" ->
             Pushed(0, [self EXCEPT !.current_field = Append(@, ch),
                                    !.state = "NUT_STATE_UNQUOTED"])
      [] self.state = "NUT_STATE_QUOTED" ->
             IF ch = BS
             THEN Pushed(0, [self EXCEPT !.state = "NUT_STATE_QUOTED_ESCAPE"])
             ELSE IF ch = DQ
             THEN Pushed(0, [self EXCEPT !.state = "NUT_STATE_QUOTED_END"])
             ELSE Pushed(0, [self EXCEPT !.current_field = Append(@, ch)])
      [] self.state = "NUT_STATE_QUOTED_ESCAPE" ->
             Pushed(0, [self EXCEPT !.current_field = Append(@, ch),
                                    !.state = "NUT_STATE_QUOTED"])
      [] self.state = "NUT_STATE_QUOTED_END" ->
             IF ~isspace_ascii(ch) THEN Pushed(-1, self)
             ELSE nut_parser_end_field(self, ch)

nut_client_quote(s) ==
    <<DQ>>
    \o Flatten([i \in 1..Len(s) |->
           IF s[i] = DQ \/ s[i] = BS THEN <<BS, s[i]>> ELSE <<s[i]>>])
    \o <<DQ>>

\* A faulty nut_client_must_quote: the backslash is forgotten.
nut_client_must_quote_lax(s) ==
    s = <<>> \/ \E i \in 1..Len(s) : Ord(s[i]) <= Ord(SP) \/ s[i] = DQ

nut_client_must_quote(s) ==
    s = <<>>
    \/ \E i \in 1..Len(s) : Ord(s[i]) <= Ord(SP) \/ s[i] = DQ \/ s[i] = BS

RECURSIVE nut_client_serialize(_)
nut_client_serialize(commands) ==
    IF commands = <<>> THEN <<>>
    ELSE Bind(nut_client_serialize(SubSeq(commands, 1, Len(commands) - 1)),
              LAMBDA line :
                  (IF line # <<>> THEN line \o <<SP>> ELSE line)
                  \o Bind(commands[Len(commands)],
                          LAMBDA arg :
                              IF nut_client_must_quote(arg)
                              THEN nut_client_quote(arg) ELSE arg))

----------------------------------------------------------------------------
\* The NUT client.

\* nut_client_init, and the zeroed history fields.
NutClientInit ==
    [state |-> "NUT_DISCONNECTED", connector |-> FALSE, socket |-> -1,
     read_buffer |-> <<>>, write_buffer |-> <<>>, socket_event |-> {},
     parser |-> NutParserInit, data |-> <<>>, in_list |-> FALSE,
     tasks |-> <<>>, on_connected |-> "NULL", on_failure |-> "NULL",
     ctx_nut_reconnect |-> TRUE, ctx_nut_success |-> FALSE,
     ctx_nut_failure |-> FALSE, ctx_nut_status |-> NULL,
     ctx_nut_ups_info |-> <<>>,
     h_events |-> <<>>, h_accepted |-> <<>>, h_next_id |-> 1, h_done |-> <<>>,
     h_called |-> <<>>, h_dropped |-> {}, h_pending |-> <<>>,
     h_lines |-> <<>>, h_conns |-> 0, h_aborted |-> FALSE]

\* The fields of the client an owner callback can observe.
NutObserve(c) ==
    [state |-> c.state, socket |-> c.socket, connector |-> c.connector,
     read_buffer |-> c.read_buffer, write_buffer |-> c.write_buffer,
     socket_event |-> c.socket_event, parser_state |-> c.parser.state,
     in_list |-> c.in_list, tasks |-> c.tasks, data |-> c.data]

nut_client_flush_data(c) == [c EXCEPT !.data = <<>>]

nut_client_destroy_connector(c) ==
    [c EXCEPT !.connector = FALSE, !.state = "NUT_DISCONNECTED"]

\* A faulty nut_client_reset: the parser is left where the old stream ended.
nut_client_reset_midline(c) ==
    [nut_client_flush_data(IF c.state = "NUT_CONNECTING"
                           THEN nut_client_destroy_connector(c) ELSE c)
     EXCEPT
             !.socket = -1, !.socket_event = {},
             !.read_buffer = <<>>, !.write_buffer = <<>>,
             !.in_list = FALSE,
             !.tasks = <<>>,
             !.state = "NUT_DISCONNECTED",
             !.h_dropped = @ \cup TaskIds(c.tasks),
             !.h_pending = <<>>,
             !.h_lines = <<>>]

nut_client_reset(c) ==
    [nut_client_flush_data(IF c.state = "NUT_CONNECTING"
                           THEN nut_client_destroy_connector(c) ELSE c)
     EXCEPT
             !.socket = -1, !.socket_event = {},
             !.read_buffer = <<>>, !.write_buffer = <<>>,
             !.parser.state = "NUT_STATE_START_LINE",
             !.in_list = FALSE,
             !.tasks = <<>>,
             !.state = "NUT_DISCONNECTED",
             !.h_dropped = @ \cup TaskIds(c.tasks),
             !.h_pending = <<>>,
             !.h_lines = <<>>]

nut_indicate_failure(c) ==
    [c EXCEPT !.ctx_nut_failure = TRUE,
              !.ctx_nut_status = <<"N", "U", "T", " ", "f", "a", "i", "l", "u",
                                   "r", "e">>]

nut_on_failure(c) == IF ~c.ctx_nut_success THEN nut_indicate_failure(c) ELSE c

\* A faulty nut_client_fail: the owner is not told.
nut_client_fail_silent(c) ==
    nut_client_reset(
        Emit(c, [kind |-> "fail", queued |-> TaskIds(c.tasks),
                 before |-> NutObserve(c)]))

nut_client_fail(c) ==
    Bind(nut_client_reset(
             Emit(c, [kind |-> "fail", queued |-> TaskIds(c.tasks),
                      before |-> NutObserve(c)])),
         LAMBDA c1 :
             IF c1.on_failure # "NULL"
             THEN nut_on_failure(
                      Emit(c1, [kind |-> "on_failure", seen |-> NutObserve(c1)]))
             ELSE c1)

nut_client_update_poller(c) ==
    [c EXCEPT !.socket_event =
        IF c.write_buffer # <<>> THEN {"POLLIN", "POLLOUT"} ELSE {"POLLIN"}]

nut_client_add_task(c, cb) ==
    [c EXCEPT !.tasks = Append(@, [callback |-> cb, id |-> c.h_next_id,
                                   lines |-> c.h_pending]),
              !.h_next_id = @ + 1,
              !.h_pending = <<>>]

nut_client_send_commandv(c, commands) ==
    Bind(nut_client_serialize(commands),
         LAMBDA line :
             nut_client_update_poller(
                 [c EXCEPT !.write_buffer = @ \o line \o <<LF>>,
                           !.h_pending = Append(@, line)]))

----------------------------------------------------------------------------
\* The NUT client: the owner's callbacks in dwmstatus.

nut_common_handler(response) == response.success

\* Strings of the status line and keys of the variables.
S_UPS_prefix == <<"U", "P", "S", ":", " ">>
S_item_sep == <<";", " ">>
S_ups_sep == <<" ", " ", " ">>
S_NUT_failure == <<"N", "U", "T", " ", "f", "a", "i", "l", "u", "r", "e">>
S_load == <<"l", "o", "a", "d", " ">>
K_ups_status == <<"u", "p", "s", ".", "s", "t", "a", "t", "u", "s">>
K_battery_charge == <<"b", "a", "t", "t", "e", "r", "y", ".", "c", "h", "a", "r", "g", "e">>
K_battery_runtime == <<"b", "a", "t", "t", "e", "r", "y", ".", "r", "u", "n", "t", "i", "m", "e">>
K_ups_load == <<"u", "p", "s", ".", "l", "o", "a", "d">>
\* The default of the configuration item nut_load_thld.
K_nut_load_thld == <<"5", "0">>

\* str_map_find: the value of the key in a map kept as a sequence of
\* [key, value] in the order the keys were first set, or NULL.
StrMapHas(map, key) == \E i \in 1..Len(map) : map[i].key = key

str_map_find(map, key) ==
    IF StrMapHas(map, key)
    THEN map[CHOOSE i \in 1..Len(map) : map[i].key = key].value
    ELSE NULL

\* str_map_set
str_map_set(map, key, value) ==
    IF \E i \in 1..Len(map) : map[i].key = key
    THEN [i \in 1..Len(map) |->
             IF map[i].key = key THEN [key |-> key, value |-> value] ELSE map[i]]
    ELSE Append(map, [key |-> key, value |-> value])

\* The table of nut_translate_status: the words it adds for a status.
NutStatusTable ==
    <<<<<<"O", "L">>, <<"o", "n", "-", "l", "i", "n", "e">>>>,
      <<<<"O", "B">>, <<"o", "n", " ", "b", "a", "t", "t", "e", "r", "y">>>>,
      <<<<"L", "B">>, <<"l", "o", "w", " ", "b", "a", "t", "t", "e", "r", "y">>>>,
      <<<<"R", "B">>, <<"r", "e", "p", "l", "a", "c", "e", " ", "b", "a", "t", "t", "e", "r", "y">>>>,
      <<<<"C", "H", "R", "G">>, <<"c", "h", "a", "r", "g", "i", "n", "g">>>>,
      <<<<"D", "I", "S", "C", "H", "R", "G">>, <<"d", "i", "s", "c", "h", "a", "r", "g", "i", "n", "g">>>>,
      <<<<"O", "V", "E", "R">>, <<"o", "v", "e", "r", "l", "o", "a", "d">>>>,
      <<<<"O", "F", "F">>, <<"o", "f", "f">>>>,
      <<<<"T", "R", "I", "M">>, <<"v", "o", "l", "t", "a", "g", "e", " ", "t", "r", "i", "m">>>>,
      <<<<"B", "O", "O", "S", "T">>, <<"v", "o", "l", "t", "a", "g", "e", " ", "b", "o", "o", "s", "t">>>>,
      <<<<"B", "Y", "P", "A", "S", "S">>, <<"b", "y", "p", "a", "s", "s">>>>>>

nut_translate_status(status) ==
    IF \E i \in 1..Len(NutStatusTable) : NutStatusTable[i][1] = status
    THEN <<NutStatusTable[CHOOSE i \in 1..Len(NutStatusTable) :
                              NutStatusTable[i][1] = status][2]>>
    ELSE <<>>

\* cstr_split_ignore_empty (s, ' ', &v)
RECURSIVE cstr_split_ignore_empty(_, _)
cstr_split_ignore_empty(str, delimiter) ==
    Bind(IndexFrom(str, delimiter, 1),
         LAMBDA p :
             IF p = 0 THEN (IF str = <<>> THEN <<>> ELSE <<str>>)
             ELSE (IF p = 1 THEN <<>> ELSE <<SubSeq(str, 1, p - 1)>>)
                  \o cstr_split_ignore_empty(SubSeq(str, p + 1, Len(str)),
                                             delimiter))

\* xstrtoul (&n, s, 10): the whole of s is a number.
xstrtoul(str) ==
    Bind(strtoul(str),
         LAMBDA r : [ok |-> str # NULL /\ r.ok /\ r.rest = <<>>,
                     value |-> r.value])

\* printf ("%lu") and printf ("%02lu")
RECURSIVE Decimal(_)
Decimal(n) ==
    (IF n >= 10 THEN Decimal(n \div 10) ELSE <<>>)
    \o <<<<"0", "1", "2", "3", "4", "5", "6", "7", "8", "9">>[(n % 10) + 1]>>

Decimal2(n) == (IF n < 10 THEN <<"0">> ELSE <<>>) \o Decimal(n)

interval_string(seconds) ==
    Decimal(seconds \div 3600) \o <<":">>
    \o Decimal2((seconds % 3600) \div 60) \o <<":">>
    \o Decimal2(seconds % 60)

\* The strings joined with the separator between them.
RECURSIVE JoinWith(_, _)
JoinWith(strings, separator) ==
    IF strings = <<>> THEN <<>>
    ELSE IF Len(strings) = 1 THEN strings[1]
    ELSE strings[1] \o separator \o JoinWith(Tail(strings), separator)

\* The items of nut_process_ups for a UPS with all it needs.
NutUpsItems(status, charge, runtime_sec, load) ==
    Bind(cstr_split_ignore_empty(status, SP),
         LAMBDA v :
             Flatten([i \in 1..Len(v) |-> nut_translate_status(v[i])])
             \o (IF <<"O", "B">> \in Range(v) \/ charge # <<"1", "0", "0">>
                 THEN <<charge \o <<"%">>>> ELSE <<>>)
             \o (IF <<"O", "B">> \in Range(v)
                 THEN <<interval_string(runtime_sec)>> ELSE <<>>)
             \o (IF /\ load # NULL
                    /\ xstrtoul(load).ok
                    /\ xstrtoul(K_nut_load_thld).ok
                    /\ xstrtoul(load).value >= xstrtoul(K_nut_load_thld).value
                 THEN <<S_load \o load \o <<"%">>>> ELSE <<>>))

\* ups_list after nut_process_ups for the variables of one UPS.
nut_process_ups(ups_list, dict) ==
    IF \/ str_map_find(dict, K_ups_status) = NULL
       \/ str_map_find(dict, K_battery_charge) = NULL
       \/ str_map_find(dict, K_battery_runtime) = NULL
    THEN ups_list
    ELSE IF ~xstrtoul(str_map_find(dict, K_battery_runtime)).ok THEN ups_list
    ELSE Append(ups_list,
                S_UPS_prefix
                \o JoinWith(
                       NutUpsItems(
                           str_map_find(dict, K_ups_status),
                           str_map_find(dict, K_battery_charge),
                           xstrtoul(str_map_find(dict, K_battery_runtime)).value,
                           str_map_find(dict, K_ups_load)),
                       S_item_sep))

\* The loop of nut_on_logout_response over nut_ups_info, from the entry at
\* index i on.
RECURSIVE NutUpsList(_, _, _)
NutUpsList(info, i, ups_list) ==
    IF i > Len(info) THEN ups_list
    ELSE NutUpsList(info, i + 1, nut_process_ups(ups_list, info[i].value))

\* nut_store_var
nut_store_var(c, ups_name, key, value) ==
    [c EXCEPT !.ctx_nut_ups_info =
        str_map_set(@, ups_name,
                    str_map_set(IF ~StrMapHas(@, ups_name) THEN <<>>
                                ELSE str_map_find(@, ups_name),
                                key, value))]

\* The loop of nut_on_var_response over the lines of the response.
RECURSIVE NutStoreVars(_, _)
NutStoreVars(c, data) ==
    IF data = <<>> THEN c
    ELSE NutStoreVars(
             IF ~(Len(Head(data)) >= 4 /\ Head(data)[1] = N_VAR) THEN c
             ELSE nut_store_var(c, Head(data)[2], Head(data)[3], Head(data)[4]),
             Tail(data))

nut_on_var_response(c, response) ==
    IF ~nut_common_handler(response) THEN c
    ELSE NutStoreVars(c, response.data)

\* The status nut_on_logout_response makes of ups_list: every round of its
\* loop appends ups_list.vector[0].
NutStatusOf(ups_list) ==
    IF ups_list = <<>> THEN NULL
    ELSE ups_list[1]
         \o Flatten([i \in 1..Len(ups_list) - 1 |-> S_ups_sep \o ups_list[1]])

\* A different nut_on_logout_response: round i of the loop appends
\* ups_list.vector[i].
nut_on_logout_response_each(c, response) ==
    IF ~nut_common_handler(response) THEN c
    ELSE [c EXCEPT !.ctx_nut_status =
                       Bind(NutUpsList(c.ctx_nut_ups_info, 1, <<>>),
                            LAMBDA ups_list :
                                IF ups_list = <<>> THEN NULL
                                ELSE JoinWith(ups_list, S_ups_sep)),
                   !.ctx_nut_success = TRUE]

nut_on_logout_response(c, response) ==
    IF ~nut_common_handler(response) THEN c
    ELSE [c EXCEPT !.ctx_nut_status =
                       NutStatusOf(NutUpsList(c.ctx_nut_ups_info, 1, <<>>)),
                   !.ctx_nut_success = TRUE]

\* The loop of nut_on_list_ups_response over the lines of the response.
RECURSIVE NutListVars(_, _)
NutListVars(c, data) ==
    IF data = <<>> THEN c
    ELSE NutListVars(
             IF ~(Len(Head(data)) >= 2 /\ Head(data)[1] = N_UPS) THEN c
             ELSE nut_client_add_task(
                      nut_client_send_commandv(
                          c, <<N_LIST, N_VAR, Head(data)[2]>>),
                      "nut_on_var_response"),
             Tail(data))

nut_on_list_ups_response(c, response) ==
    IF ~nut_common_handler(response) THEN c
    ELSE nut_client_add_task(
             nut_client_send_commandv(NutListVars(c, response.data),
                                      <<N_LOGOUT>>),
             "nut_on_logout_response")

nut_on_connected(c) ==
    nut_client_add_task(nut_client_send_commandv(c, <<N_LIST, N_UPS>>),
                        "nut_on_list_ups_response")

----------------------------------------------------------------------------
\* The NUT client: parsing and dispatching responses, readiness, connecting.

\* The call of a task's callback in nut_client_dispatch.
NutCall(c, callback, response) ==
    CASE callback = "nut_on_list_ups_response" ->
             nut_on_list_ups_response(c, response)
      [] callback = "nut_on_var_response" -> nut_on_var_response(c, response)
      [] callback = "nut_on_logout_response" ->
             nut_on_logout_response(c, response)
      [] OTHER -> c

\* The same call, entered in the history.
NutInvoke(c, task, response) ==
    NutCall([Emit(c, [kind |-> "task_cb", id |-> task.id,
                      callback |-> task.callback, lines |-> task.lines,
                      response |-> response, data |-> response.data,
                      queue |-> Ids(c.tasks), received |-> c.h_lines])
             EXCEPT !.h_called = Append(@, task.id)],
            task.callback, response)

\* nut_client_dispatch with a task at the head of the queue.
NutDispatchTask(c, task, response) ==
    [nut_client_flush_data(IF task.callback # "NULL"
                           THEN NutInvoke(c, task, response) ELSE c)
     EXCEPT !.tasks = Tail(@),
            !.h_lines = <<>>,
            !.h_done = Append(@, [id |-> task.id, callback |-> task.callback])]

\* A different nut_client_dispatch: without a task, the data is flushed.
nut_client_dispatch_flushing(c, response) ==
    IF c.tasks = <<>> THEN nut_client_flush_data(c)
    ELSE NutDispatchTask(c, Head(c.tasks), response)

nut_client_dispatch(c, response) ==
    IF c.tasks = <<>> THEN c
    ELSE NutDispatchTask(c, Head(c.tasks), response)

\* A faulty first half of nut_client_parse_line: the line that ends a list
\* is taken for a line of the list as well.
NutTakeLineWithEnd(c, fields) ==
    IF Len(fields) >= 2 /\ fields[1] = N_BEGIN /\ fields[2] = N_LIST
    THEN [Received(c, fields, FALSE, FALSE) EXCEPT !.in_list = TRUE]
    ELSE IF Len(fields) >= 2 /\ fields[1] = N_END /\ fields[2] = N_LIST
    THEN [Received(c, fields, TRUE, FALSE) EXCEPT !.in_list = FALSE,
                                                  !.data = Append(@, fields)]
    ELSE [Received(c, fields, ~c.in_list, TRUE) EXCEPT !.data = Append(@, fields)]

\* The first half of nut_client_parse_line: list markers and data lines.
NutTakeLine(c, fields) ==
    IF Len(fields) >= 2 /\ fields[1] = N_BEGIN /\ fields[2] = N_LIST
    THEN [Received(c, fields, FALSE, FALSE) EXCEPT !.in_list = TRUE]
    ELSE IF Len(fields) >= 2 /\ fields[1] = N_END /\ fields[2] = N_LIST
    THEN [Received(c, fields, TRUE, FALSE) EXCEPT !.in_list = FALSE]
    ELSE [Received(c, fields, ~c.in_list, TRUE) EXCEPT !.data = Append(@, fields)]

\* The second half of nut_client_parse_line: errors and dispatching.
NutFinishLine(c, fields) ==
    IF c.in_list THEN Ok(c)
    ELSE IF fields[1] = N_ERR
    THEN IF Len(fields) < 2 THEN Failed(c)
         ELSE Ok(nut_client_dispatch(c,
                  [success |-> FALSE, message |-> fields[2], data |-> c.data]))
    ELSE Ok(nut_client_dispatch(c,
             [success |-> TRUE, message |-> <<>>, data |-> c.data]))

nut_client_parse_line(c) ==
    IF c.parser.fields = <<>> THEN Ok(Abort(c, "nut_client_parse_line"))
    ELSE NutFinishLine(NutTakeLine(c, c.parser.fields), c.parser.fields)

\* The loop of nut_client_process_input from the byte at index i on.
RECURSIVE NutProcessFrom(_, _)
NutProcessFrom(c, i) ==
    IF c.h_aborted THEN Ok(c)
    ELSE IF i > Len(c.read_buffer) THEN Ok([c EXCEPT !.read_buffer = <<>>])
    ELSE Bind(nut_parser_push(c.parser, c.read_buffer[i]),
              LAMBDA pushed :
                  IF pushed.res = -1
                  THEN Failed([c EXCEPT !.parser = pushed.parser])
                  ELSE IF pushed.res = 1
                  THEN Bind(nut_client_parse_line(
                                [c EXCEPT !.parser = pushed.parser]),
                            LAMBDA r :
                                IF ~r.ok THEN r
                                ELSE NutProcessFrom(r.c, i + 1))
                  ELSE NutProcessFrom([c EXCEPT !.parser = pushed.parser],
                                      i + 1))

nut_client_process_input(c) == NutProcessFrom(c, 1)

\* The POLLOUT half of nut_client_on_ready; h_accepted is what the socket took.
NutTryWrite(c, wr) ==
    Bind([c EXCEPT !.write_buffer = socket_io_try_write(@, wr),
                   !.h_accepted = SubSeq(c.write_buffer, 1,
                                         Accepted(c.write_buffer, wr))],
         LAMBDA c2 :
             IF wr.result # "SOCKET_IO_OK" THEN nut_client_fail(c2)
             ELSE nut_client_update_poller(c2))

nut_client_on_ready(c, rd, wr) ==
    Bind(nut_client_process_input(HasRead(c, rd)),
         LAMBDA r :
             IF ~r.ok \/ rd.result # "SOCKET_IO_OK" THEN nut_client_fail(r.c)
             ELSE IF r.c.h_aborted THEN r.c
             ELSE NutTryWrite(r.c, wr))

nut_client_finish_connection(c, socket) ==
    Bind(nut_client_update_poller(
             [c EXCEPT !.socket = socket, !.state = "NUT_CONNECTED"]),
         LAMBDA c1 :
             IF c1.on_connected # "NULL"
             THEN nut_on_connected(
                      Emit(c1, [kind |-> "on_connected", seen |-> NutObserve(c1)]))
             ELSE c1)

nut_client_on_connector_failure(c) ==
    nut_client_fail(nut_client_destroy_connector(c))

nut_client_on_connector_connected(c, socket) ==
    nut_client_finish_connection(nut_client_destroy_connector(c), socket)

nut_client_connect(c) ==
    IF c.state # "NUT_DISCONNECTED"
    THEN Emit([c EXCEPT !.h_aborted = TRUE],
              [kind |-> "abort", at |-> "nut_client_connect"])
    ELSE [c EXCEPT !.connector = TRUE, !.state = "NUT_CONNECTING"]

\* The periodic reconnect timer of dwmstatus fires (nut_enabled is set).
\* on_nut_reconnect once the callbacks are installed.
\* A faulty on_nut_reconnect: a client still active is not reset.
NutReconnectNowKeeping(c) ==
    [nut_client_connect(IF c.state # "NUT_DISCONNECTED"
                        THEN nut_indicate_failure(c) ELSE c)
     EXCEPT !.ctx_nut_ups_info = <<>>,
            !.ctx_nut_success = FALSE, !.ctx_nut_reconnect = TRUE]

NutReconnectNow(c) ==
    [nut_client_connect(
         IF c.state # "NUT_DISCONNECTED"
         THEN Emit(nut_client_reset(nut_indicate_failure(c)),
                   [kind |-> "reset", before |-> NutObserve(c)])
         ELSE c)
     EXCEPT !.ctx_nut_ups_info = <<>>,
            !.ctx_nut_success = FALSE, !.ctx_nut_reconnect = TRUE]

on_nut_reconnect(c) ==
    NutReconnectNow([c EXCEPT !.on_failure = "nut_on_failure",
                              !.on_connected = "nut_on_connected",
                              !.h_conns = @ + 1])

----------------------------------------------------------------------------
\* The environment: the network and the peer.

SrvInit == [inbuf |-> <<>>, idle |-> FALSE, list |-> <<>>, in_list |-> FALSE,
            sent |-> 0, events |-> 0]

RtIdle == [args |-> <<>>, bytes |-> <<>>, pos |-> 0, parser |-> NutParserInit,
           lines |-> <<>>, error |-> FALSE]

CkIdle == [proto |-> "none", stream |-> <<>>, pos |-> 0, split |-> FALSE]

\* What one run of socket_io_try_read may return with `w` in flight: all of
\* it, or all but its last MaxPartial bytes, before EAGAIN; all of it before
\* the peer's EOF; or an error.
Reads(w) ==
    {ReadResult(w, "SOCKET_IO_OK"), ReadResult(w, "SOCKET_IO_EOF"),
     ReadResult(<<>>, "SOCKET_IO_ERROR")}
    \cup {ReadResult(SubSeq(w, 1, Len(w) - MaxPartial), "SOCKET_IO_OK") :
            x \in {y \in {0} : Len(w) > MaxPartial}}

\* What one run of socket_io_try_write may do.
Writes ==
    {WriteResult("all", "SOCKET_IO_OK"), WriteResult("some", "SOCKET_IO_OK"),
     WriteResult("none", "SOCKET_IO_ERROR")}

\* The poller reports the socket ready: there is something to read, or the
\* socket is writable and POLLOUT is asked for.
Ready(c, rd) ==
    /\ "POLLIN" \in c.socket_event
    /\ \/ rd.bytes # <<>>
       \/ rd.result # "SOCKET_IO_OK"
       \/ "POLLOUT" \in c.socket_event

\* Lines an MPD peer may send in Spec, well-behaved or not.
L_greeting == S_hello \o <<"0">>
L_ack == S_ACK \o <<"5", "@", "0", "]", SP, "{", "x", "}", SP, "m">>
L_changed_player == S_changed \o S_kvsep \o S_player

MpdServerLines == {L_greeting, S_OK, L_ack, L_changed_player}

----------------------------------------------------------------------------
\* The owner's use of the MPD client interface, as its comments prescribe:
\* a command and its task, a command list and its one task.

MpdSendWithTask(c, commands, cb) ==
    mpd_client_add_task(mpd_client_send_commandv(c, commands), cb)

RECURSIVE MpdSendAll(_, _)
MpdSendAll(c, list) ==
    IF list = <<>> THEN c
    ELSE MpdSendAll(mpd_client_send_commandv(c, Head(list)), Tail(list))

MpdSendList(c, list, cb) ==
    mpd_client_add_task(
        mpd_client_list_end(MpdSendAll(mpd_client_list_begin(c), list)), cb)

----------------------------------------------------------------------------
\* Spec: either client with its owner, an arbitrary peer and a network that
\* may fail at any time.

WithinBounds(c) == c.h_next_id <= MaxTasks + 1

Init ==
    /\ proto \in {"mpd", "nut"}
    /\ mpd \in {[MpdClientInit EXCEPT !.ctx_password = b] :
                  b \in IF proto = "mpd" THEN BOOLEAN ELSE {FALSE}}
    /\ nut = NutClientInit
    /\ wire = <<>>
    /\ srv = SrvInit
    /\ rt = RtIdle
    /\ ck = CkIdle

\* Every step of the MPD client: the client afterwards, and the bytes still
\* in flight (none once the socket is closed).
MpdStep(c, w) ==
    /\ WithinBounds(c)
    /\ mpd' = c
    /\ wire' = IF c.socket = -1 THEN <<>> ELSE w
    /\ srv' = IF c.socket = -1 THEN SrvInit ELSE srv
    /\ UNCHANGED <<proto, nut, rt, ck>>

MpdLive == proto = "mpd" /\ ~mpd.h_aborted

MpdReconnect ==
    /\ MpdLive
    /\ mpd.ctx_mpd_reconnect
    /\ mpd.h_conns < MaxConns
    /\ \E unix \in BOOLEAN :
         \E how \in IF unix THEN {"ok", "socket", "connect"} ELSE {"ok"} :
           MpdStep(on_mpd_reconnect(Enter(mpd), unix, how, mpd.h_conns + 1),
                   <<>>)

MpdConnectorConnected ==
    /\ MpdLive
    /\ mpd.state = "MPD_CONNECTING"
    /\ MpdStep(mpd_client_on_connector_connected(Enter(mpd), mpd.h_conns), <<>>)

MpdConnectorFailure ==
    /\ MpdLive
    /\ mpd.state = "MPD_CONNECTING"
    /\ MpdStep(mpd_client_on_connector_failure(Enter(mpd)), <<>>)

MpdServerSend ==
    /\ MpdLive
    /\ mpd.state = "MPD_CONNECTED"
    /\ wire = <<>>
    /\ srv.sent < MaxServerLines
    /\ \E line \in MpdServerLines : wire' = line \o <<LF>>
    /\ srv' = [srv EXCEPT !.sent = @ + 1]
    /\ UNCHANGED <<proto, mpd, nut, rt, ck>>

MpdReady ==
    /\ MpdLive
    /\ mpd.state = "MPD_CONNECTED"
    /\ \E rd \in Reads(wire), wr \in Writes :
         /\ Ready(mpd, rd)
         /\ MpdStep(mpd_client_on_ready(Enter(mpd), rd, wr),
                    SubSeq(wire, Len(rd.bytes) + 1, Len(wire)))

MpdTimeout ==
    /\ MpdLive
    /\ mpd.timeout_timer
    /\ MpdStep(mpd_client_on_timeout(
                   [Enter(mpd) EXCEPT !.timeout_timer = FALSE]), wire)

MpdKey ==
    /\ MpdLive
    /\ \E commands \in {<<S_pause>>} :
         MpdStep(on_mpd_simple(Enter(mpd), commands), wire)

MpdNext ==
    \/ MpdReconnect
    \/ MpdConnectorConnected
    \/ MpdConnectorFailure
    \/ MpdServerSend
    \/ MpdReady
    \/ MpdTimeout
    \/ MpdKey

\* Lines a NUT peer may send in Spec, well-behaved or not.
NutServerLines ==
    {N_BEGIN \o <<SP>> \o N_LIST, N_UPS \o <<SP, "u">>, N_END \o <<SP>> \o N_LIST,
     N_ERR \o <<SP, "E">>, N_ERR, S_OK, <<"a", DQ>>}

\* Every step of the NUT client: the client afterwards, and the bytes still
\* in flight (none once the socket is closed).
NutStep(c, w) ==
    /\ WithinBounds(c)
    /\ nut' = c
    /\ wire' = IF c.socket = -1 THEN <<>> ELSE w
    /\ srv' = IF c.socket = -1 THEN SrvInit ELSE srv
    /\ UNCHANGED <<proto, mpd, rt, ck>>

NutLive == proto = "nut" /\ ~nut.h_aborted

NutReconnect ==
    /\ NutLive
    /\ nut.ctx_nut_reconnect
    /\ nut.h_conns < MaxConns
    /\ NutStep(on_nut_reconnect(Enter(nut)), <<>>)

NutConnectorConnected ==
    /\ NutLive
    /\ nut.state = "NUT_CONNECTING"
    /\ NutStep(nut_client_on_connector_connected(Enter(nut), nut.h_conns), <<>>)

NutConnectorFailure ==
    /\ NutLive
    /\ nut.state = "NUT_CONNECTING"
    /\ NutStep(nut_client_on_connector_failure(Enter(nut)), <<>>)

NutServerSend ==
    /\ NutLive
    /\ nut.state = "NUT_CONNECTED"
    /\ wire = <<>>
    /\ srv.sent < MaxServerLines
    /\ \E line \in NutServerLines : wire' = line \o <<LF>>
    /\ srv' = [srv EXCEPT !.sent = @ + 1]
    /\ UNCHANGED <<proto, mpd, nut, rt, ck>>

NutReady ==
    /\ NutLive
    /\ nut.state = "NUT_CONNECTED"
    /\ \E rd \in Reads(wire), wr \in Writes :
         /\ Ready(nut, rd)
         /\ NutStep(nut_client_on_ready(Enter(nut), rd, wr),
                    SubSeq(wire, Len(rd.bytes) + 1, Len(wire)))

NutNext ==
    \/ NutReconnect
    \/ NutConnectorConnected
    \/ NutConnectorFailure
    \/ NutServerSend
    \/ NutReady

Next == MpdNext \/ NutNext

Spec == Init /\ [][Next]_vars

----------------------------------------------------------------------------
\* ApiSpec: the MPD client under an owner that uses its interface freely
\* (commands, command lists, idle), with a peer that behaves as an MPD server
\* does and may close the connection.

\* The commands of a list of k commands.
ApiListCommands(k) ==
    [i \in 1..k |-> IF i % 2 = 1 THEN <<S_currentsong>> ELSE <<S_status>>]

\* The data line the peer answers a command line with.
SrvData(line) == <<line[1]>> \o S_kvsep \o <<"1">>

\* The data lines of the peer's answer to a command line.
SrvAnswer(line) == IF line = S_ping THEN <<>> ELSE <<SrvData(line)>>

\* Lines as the bytes that go over the wire.
SrvBytes(lines) == Flatten([i \in 1..Len(lines) |-> lines[i] \o <<LF>>])

\* The line is the idle command, with or without subsystems.
IsIdleLine(line) ==
    HasPrefix(line, S_idle)
    /\ (Len(line) = Len(S_idle) \/ line[Len(S_idle) + 1] = SP)

\* The peer and the lines it sends once it has read a line: idle is
\* answered only by a later notification or noidle, noidle completes a
\* pending idle and is ignored otherwise, a command list is answered as a
\* whole, any other command by its data and OK (the client sends none while
\* the peer is in idle mode; the peer is taken to leave idle mode then).
SrvHandle(s, line) ==
    IF s.in_list
    THEN IF line = S_list_end
         THEN [srv |-> [s EXCEPT !.in_list = FALSE, !.list = <<>>],
               out |-> s.list \o <<S_OK>>]
         ELSE [srv |-> [s EXCEPT !.list = @ \o SrvAnswer(line)], out |-> <<>>]
    ELSE IF line = S_list_begin
    THEN [srv |-> [s EXCEPT !.in_list = TRUE], out |-> <<>>]
    ELSE IF IsIdleLine(line)
    THEN [srv |-> [s EXCEPT !.idle = TRUE], out |-> <<>>]
    ELSE IF line = S_noidle
    THEN [srv |-> [s EXCEPT !.idle = FALSE],
          out |-> IF s.idle THEN <<S_OK>> ELSE <<>>]
    ELSE [srv |-> [s EXCEPT !.idle = FALSE],
          out |-> SrvAnswer(line) \o <<S_OK>>]

ApiInit ==
    /\ proto = "mpd"
    /\ mpd = MpdClientInit
    /\ nut = NutClientInit
    /\ wire = <<>>
    /\ srv = SrvInit
    /\ rt = RtIdle
    /\ ck = CkIdle

\* Every step of the client: the client afterwards, the bytes in flight to
\* it and the peer (both gone once the socket is closed).
ApiStep(c, w, s) ==
    /\ c.h_next_id <= MaxApiTasks + 1
    /\ mpd' = c
    /\ wire' = IF c.socket = -1 THEN <<>> ELSE w
    /\ srv' = IF c.socket = -1 THEN SrvInit ELSE s
    /\ UNCHANGED <<proto, nut, rt, ck>>

ApiLive == ~mpd.h_aborted /\ mpd.state = "MPD_CONNECTED"

\* The owner connects over a local socket; the peer greets.
ApiConnect ==
    /\ ~mpd.h_aborted
    /\ mpd.state = "MPD_DISCONNECTED"
    /\ mpd.h_conns < MaxConns
    /\ ApiStep(mpd_client_connect(
                   [Enter(mpd) EXCEPT !.on_failure = "mpd_on_failure",
                                      !.h_conns = @ + 1],
                   TRUE, "ok", mpd.h_conns + 1).c,
               L_greeting \o <<LF>>, SrvInit)

\* The owner sends a command and adds its task.
ApiCommand ==
    /\ ApiLive
    /\ ApiStep(MpdSendWithTask(Enter(mpd), <<S_status>>, "on_command"),
               wire, srv)

\* The owner sends a command list, empty or of the longest length, and adds
\* its one task.
ApiList ==
    /\ ApiLive
    /\ \E k \in {0, MaxListLen} :
         ApiStep(MpdSendList(Enter(mpd), ApiListCommands(k), "on_list"),
                 wire, srv)

\* The owner enters idle mode.
ApiIdle ==
    /\ ApiLive
    /\ \E subsystems \in {{S_player}} :
         ApiStep(mpd_client_idle(Enter(mpd), subsystems), wire, srv)

\* The watchdog of idle mode fires.
ApiTimeout ==
    /\ ApiLive
    /\ mpd.timeout_timer
    /\ ApiStep(mpd_client_on_timeout(
                   [Enter(mpd) EXCEPT !.timeout_timer = FALSE]), wire, srv)

\* The socket is ready: the client reads all that is in flight, or finds the
\* connection closed, and the peer receives all the client has to write.
ApiReadyWith(result) ==
    /\ ApiLive
    /\ Ready(mpd, ReadResult(wire, result))
    /\ Bind(mpd_client_on_ready(Enter(mpd), ReadResult(wire, result),
                                WriteResult("all", "SOCKET_IO_OK")),
            LAMBDA c : ApiStep(c, <<>>,
                               [srv EXCEPT !.inbuf = @ \o c.h_accepted]))

ApiReady == ApiReadyWith("SOCKET_IO_OK")

ApiClosed == ApiReadyWith("SOCKET_IO_EOF")

\* The peer reads one line and acts on it.
ApiServerStep ==
    /\ ApiLive
    /\ IndexFrom(srv.inbuf, LF, 1) # 0
    /\ Bind(IndexFrom(srv.inbuf, LF, 1),
            LAMBDA p :
                Bind(SrvHandle([srv EXCEPT !.inbuf = SubSeq(@, p + 1, Len(@))],
                               SubSeq(srv.inbuf, 1, p - 1)),
                     LAMBDA r :
                         /\ srv' = r.srv
                         /\ wire' = wire \o SrvBytes(r.out)))
    /\ UNCHANGED <<proto, mpd, nut, rt, ck>>

\* Something changes in the player while the peer is in idle mode.
ApiServerNotify ==
    /\ ApiLive
    /\ srv.idle
    /\ srv.events < MaxServerLines
    /\ srv' = [srv EXCEPT !.idle = FALSE, !.events = @ + 1]
    /\ wire' = wire \o SrvBytes(<<L_changed_player, S_OK>>)
    /\ UNCHANGED <<proto, mpd, nut, rt, ck>>

ApiNext ==
    \/ ApiConnect
    \/ ApiCommand
    \/ ApiList
    \/ ApiIdle
    \/ ApiTimeout
    \/ ApiReady
    \/ ApiClosed
    \/ ApiServerStep
    \/ ApiServerNotify

ApiSpec == ApiInit /\ [][ApiNext]_vars

----------------------------------------------------------------------------
\* OwnerSpec: either client under an owner that uses the whole interface
\* (connect, commands, lists, idle, and reset at any time), with an arbitrary
\* peer.  The owner's task callbacks do nothing.

OwnerInit ==
    /\ proto \in {"mpd", "nut"}
    /\ mpd = [MpdClientInit EXCEPT !.on_failure = "mpd_on_failure"]
    /\ nut = [NutClientInit EXCEPT !.on_failure = "nut_on_failure"]
    /\ wire = <<>>
    /\ srv = SrvInit
    /\ rt = RtIdle
    /\ ck = CkIdle

OwnerMpdStep(c, w) ==
    /\ c.h_next_id <= MaxOwnerTasks + 1
    /\ mpd' = c
    /\ wire' = IF c.socket = -1 THEN <<>> ELSE w
    /\ srv' = IF c.socket = -1 THEN SrvInit ELSE srv
    /\ UNCHANGED <<proto, nut, rt, ck>>

OwnerMpdUp == MpdLive /\ mpd.state = "MPD_CONNECTED"

\* mpd_client_connect to a host.
OwnerMpdConnect ==
    /\ MpdLive
    /\ mpd.state = "MPD_DISCONNECTED"
    /\ mpd.h_conns < MaxConns
    /\ OwnerMpdStep(mpd_client_connect(
                        [Enter(mpd) EXCEPT !.h_conns = @ + 1],
                        FALSE, "ok", mpd.h_conns + 1).c,
                    <<>>)

OwnerMpdConnectorConnected ==
    /\ MpdLive
    /\ mpd.state = "MPD_CONNECTING"
    /\ OwnerMpdStep(mpd_client_on_connector_connected(Enter(mpd), mpd.h_conns),
                    <<>>)

OwnerMpdConnectorFailure ==
    /\ MpdLive
    /\ mpd.state = "MPD_CONNECTING"
    /\ OwnerMpdStep(mpd_client_on_connector_failure(Enter(mpd)), <<>>)

\* mpd_client_send_command and mpd_client_add_task
OwnerMpdCommand ==
    /\ OwnerMpdUp
    /\ OwnerMpdStep(MpdSendWithTask(Enter(mpd), <<S_status>>, "on_command"),
                    wire)

\* mpd_client_idle
OwnerMpdIdle ==
    /\ OwnerMpdUp
    /\ OwnerMpdStep(mpd_client_idle(Enter(mpd), {S_player}), wire)

\* A command list of one command and its task.
OwnerMpdList ==
    /\ OwnerMpdUp
    /\ OwnerMpdStep(MpdSendList(Enter(mpd), <<<<S_status>>>>, "on_list"), wire)

\* The client as the owner resets it: as it is, or inside a command list the
\* owner has just begun.
OwnerMpdBeforeReset(c, inside) ==
    IF inside
    THEN mpd_client_send_commandv(mpd_client_list_begin(c), <<S_status>>)
    ELSE c

\* mpd_client_reset, in whatever state the client is.
OwnerMpdReset ==
    /\ MpdLive
    /\ \E inside \in {FALSE, mpd.state = "MPD_CONNECTED"} :
         Bind(OwnerMpdBeforeReset(Enter(mpd), inside),
              LAMBDA c :
                  OwnerMpdStep(Emit(mpd_client_reset(c),
                                    [kind |-> "reset", before |-> Observe(c)]),
                               <<>>))

\* What the peer sends at once: a line, or a data line and the end of a
\* response.
OwnerMpdBursts ==
    {line \o <<LF>> : line \in MpdServerLines}
    \cup {L_changed_player \o <<LF>> \o S_OK \o <<LF>>}

OwnerMpdServerSend ==
    /\ OwnerMpdUp
    /\ wire = <<>>
    /\ srv.sent < MaxOwnerLines
    /\ \E burst \in OwnerMpdBursts : wire' = burst
    /\ srv' = [srv EXCEPT !.sent = @ + 1]
    /\ UNCHANGED <<proto, mpd, nut, rt, ck>>

\* The socket is ready: the client reads all that is in flight and the
\* socket takes all it has to write.
OwnerMpdReady ==
    /\ OwnerMpdUp
    /\ Ready(mpd, ReadResult(wire, "SOCKET_IO_OK"))
    /\ OwnerMpdStep(mpd_client_on_ready(Enter(mpd),
                                        ReadResult(wire, "SOCKET_IO_OK"),
                                        WriteResult("all", "SOCKET_IO_OK")),
                    <<>>)

OwnerMpdNext ==
    \/ OwnerMpdConnect
    \/ OwnerMpdConnectorConnected
    \/ OwnerMpdConnectorFailure
    \/ OwnerMpdCommand
    \/ OwnerMpdIdle
    \/ OwnerMpdList
    \/ OwnerMpdReset
    \/ OwnerMpdServerSend
    \/ OwnerMpdReady

OwnerNutStep(c, w) ==
    /\ c.h_next_id <= MaxOwnerTasks + 1
    /\ nut' = c
    /\ wire' = IF c.socket = -1 THEN <<>> ELSE w
    /\ srv' = IF c.socket = -1 THEN SrvInit ELSE srv
    /\ UNCHANGED <<proto, mpd, rt, ck>>

OwnerNutUp == NutLive /\ nut.state = "NUT_CONNECTED"

\* nut_client_connect
OwnerNutConnect ==
    /\ NutLive
    /\ nut.state = "NUT_DISCONNECTED"
    /\ nut.h_conns < MaxConns
    /\ OwnerNutStep(nut_client_connect([Enter(nut) EXCEPT !.h_conns = @ + 1]),
                    <<>>)

OwnerNutConnectorConnected ==
    /\ NutLive
    /\ nut.state = "NUT_CONNECTING"
    /\ OwnerNutStep(nut_client_on_connector_connected(Enter(nut), nut.h_conns),
                    <<>>)

OwnerNutConnectorFailure ==
    /\ NutLive
    /\ nut.state = "NUT_CONNECTING"
    /\ OwnerNutStep(nut_client_on_connector_failure(Enter(nut)), <<>>)

\* nut_client_send_command and nut_client_add_task
OwnerNutCommand ==
    /\ OwnerNutUp
    /\ OwnerNutStep(nut_client_add_task(
                        nut_client_send_commandv(Enter(nut), <<N_LIST, N_UPS>>),
                        "on_command"),
                    wire)

\* nut_client_reset, in whatever state the client is.
OwnerNutReset ==
    /\ NutLive
    /\ OwnerNutStep(Emit(nut_client_reset(Enter(nut)),
                         [kind |-> "reset", before |-> NutObserve(nut)]),
                    <<>>)

\* Lines a NUT peer may send in OwnerSpec: a list, a line outside a list,
\* an error.
OwnerNutLines ==
    {N_BEGIN \o <<SP>> \o N_LIST, N_UPS \o <<SP, "u">>, N_END \o <<SP>> \o N_LIST,
     N_ERR \o <<SP, "E">>, N_ERR}

OwnerNutServerSend ==
    /\ OwnerNutUp
    /\ wire = <<>>
    /\ srv.sent < MaxOwnerLines
    /\ \E line \in OwnerNutLines : wire' = line \o <<LF>>
    /\ srv' = [srv EXCEPT !.sent = @ + 1]
    /\ UNCHANGED <<proto, mpd, nut, rt, ck>>

OwnerNutReady ==
    /\ OwnerNutUp
    /\ Ready(nut, ReadResult(wire, "SOCKET_IO_OK"))
    /\ OwnerNutStep(nut_client_on_ready(Enter(nut),
                                        ReadResult(wire, "SOCKET_IO_OK"),
                                        WriteResult("all", "SOCKET_IO_OK")),
                    <<>>)

OwnerNutNext ==
    \/ OwnerNutConnect
    \/ OwnerNutConnectorConnected
    \/ OwnerNutConnectorFailure
    \/ OwnerNutCommand
    \/ OwnerNutReset
    \/ OwnerNutServerSend
    \/ OwnerNutReady

OwnerNext == OwnerMpdNext \/ OwnerNutNext

OwnerSpec == OwnerInit /\ [][OwnerNext]_vars

----------------------------------------------------------------------------
\* Properties of Spec.

\* The client this behaviour exercises.
Client == IF proto = "mpd" THEN mpd ELSE nut

IsIncreasing(s) == \A i, j \in 1..Len(s) : i < j => s[i] < s[j]

IsPrefix(s, t) == Len(s) <= Len(t) /\ SubSeq(t, 1, Len(s)) = s

NoDuplicates(s) == \A i, j \in 1..Len(s) : i # j => s[i] # s[j]

\* The events of one kind among those of the last handler.
EventsOf(c, kind) == SelectSeq(c.h_events, LAMBDA e : e.kind = kind)

DoneIds(c) == {c.h_done[i].id : i \in 1..Len(c.h_done)}

\* C1: tasks are dispatched in the order they were enqueued, by both
\* clients: the identifiers, which count the calls of add_task, increase along
\* the dispatches, along the calls of callbacks and along the queue; every
\* task still queued was enqueued after every task dispatched; and a task's
\* callback runs while that task is at the head of the queue.
C1_FifoDispatch ==
    /\ IsIncreasing(Ids(Client.h_done))
    /\ IsIncreasing(Client.h_called)
    /\ IsIncreasing(Ids(Client.tasks))
    /\ \A d \in DoneIds(Client), q \in TaskIds(Client.tasks) : d < q
    /\ \A i \in 1..Len(Client.h_events) :
         Client.h_events[i].kind = "task_cb"
         => /\ Client.h_events[i].queue # <<>>
            /\ Client.h_events[i].queue[1] = Client.h_events[i].id
            /\ IsIncreasing(Client.h_events[i].queue)

\* Three tasks were dispatched, one of them enqueued by a callback, and
\* another one waits.
C1_Witness ==
    /\ Len(Client.h_done) >= 3
    /\ Len(Client.h_called) >= 2
    /\ Client.tasks # <<>>

\* C2: every task enqueued so far is in exactly one of three places: still
\* queued, dispatched (once, and its callback, if it has one, called once),
\* or dropped by a reset (and its callback never called).
C2_ExactlyOnce ==
    /\ DoneIds(Client) \cup Client.h_dropped \cup TaskIds(Client.tasks)
         = 1..(Client.h_next_id - 1)
    /\ DoneIds(Client) \cap Client.h_dropped = {}
    /\ DoneIds(Client) \cap TaskIds(Client.tasks) = {}
    /\ Client.h_dropped \cap TaskIds(Client.tasks) = {}
    /\ NoDuplicates(Ids(Client.h_done))
    /\ NoDuplicates(Ids(Client.tasks))
    /\ NoDuplicates(Client.h_called)
    /\ Range(Client.h_called)
         = {Client.h_done[i].id : i \in {j \in 1..Len(Client.h_done) :
                                           Client.h_done[j].callback # "NULL"}}
    /\ Range(Client.h_called) \cap Client.h_dropped = {}

\* Some tasks were dispatched and their callbacks called, some were dropped
\* by a reset, and some are queued.
C2_Witness ==
    /\ Len(Client.h_called) >= 1
    /\ Cardinality(Client.h_dropped) >= 2
    /\ Client.tasks # <<>>

\* What C5 requires the owner's failure callback to see.
MpdFullyReset(seen) ==
    /\ seen.state = "MPD_DISCONNECTED"
    /\ seen.socket = -1
    /\ ~seen.connector
    /\ seen.socket_event = {}
    /\ seen.read_buffer = <<>>
    /\ seen.write_buffer = <<>>
    /\ seen.tasks = <<>>
    /\ seen.data = <<>>
    /\ ~seen.idling
    /\ ~seen.in_list
    /\ ~seen.got_hello
    /\ ~seen.timeout_timer

NutFullyReset(seen) ==
    /\ seen.state = "NUT_DISCONNECTED"
    /\ seen.socket = -1
    /\ ~seen.connector
    /\ seen.socket_event = {}
    /\ seen.read_buffer = <<>>
    /\ seen.write_buffer = <<>>
    /\ seen.tasks = <<>>
    /\ seen.data = <<>>
    /\ ~seen.in_list
    /\ seen.parser_state = "NUT_STATE_START_LINE"

\* C5: whenever the owner's failure callback runs, whatever the cause, the
\* client it sees is fully reset.
C5_ResetBeforeOnFailure ==
    \A i \in 1..Len(Client.h_events) :
        Client.h_events[i].kind = "on_failure"
        => IF proto = "mpd" THEN MpdFullyReset(Client.h_events[i].seen)
           ELSE NutFullyReset(Client.h_events[i].seen)

\* The MPD client failed while it was idling with tasks queued, the watchdog
\* armed and bytes waiting in both buffers, and the failure callback has run.
C5_Witness ==
    /\ proto = "mpd"
    /\ \E i \in 1..Len(mpd.h_events) :
         /\ mpd.h_events[i].kind = "fail"
         /\ mpd.h_events[i].before.idling
         /\ mpd.h_events[i].before.got_hello
         /\ mpd.h_events[i].before.timeout_timer
         /\ mpd.h_events[i].before.tasks # <<>>
         /\ mpd.h_events[i].before.write_buffer # <<>>
         /\ mpd.h_events[i].before.read_buffer # <<>>
    /\ EventsOf(mpd, "on_failure") # <<>>

\* C6: a handler that fails the connection calls the failure callback once,
\* right away, and calls no task callback from then on; the tasks that were
\* queued are dropped with their callbacks never called.  No handler fails
\* the connection twice.
C6_FailureReset ==
    /\ Len(EventsOf(Client, "fail")) <= 1
    /\ Len(EventsOf(Client, "on_failure")) = Len(EventsOf(Client, "fail"))
    /\ \A i \in 1..Len(Client.h_events) :
         Client.h_events[i].kind = "fail"
         => /\ i < Len(Client.h_events)
            /\ Client.h_events[i + 1].kind = "on_failure"
            /\ \A j \in (i + 2)..Len(Client.h_events) :
                 Client.h_events[j].kind \notin {"task_cb", "on_failure"}
            /\ Client.h_events[i].queued \subseteq Client.h_dropped
            /\ Client.h_events[i].queued \cap Range(Client.h_called) = {}

\* The NUT client failed with at least two tasks queued, after a task had
\* been dispatched in the same handler.
C6_Witness ==
    /\ proto = "nut"
    /\ \E i \in 1..Len(nut.h_events) :
         /\ nut.h_events[i].kind = "fail"
         /\ Cardinality(nut.h_events[i].queued) >= 2
         /\ \E j \in 1..(i - 1) : nut.h_events[j].kind = "task_cb"

\* The MPD client after the line L_ack, and the NUT client after the line
\* "ERR E", arrive in the current state.
MpdAfterAck ==
    mpd_client_process_input(
        [Enter(mpd) EXCEPT !.read_buffer = L_ack \o <<LF>>])

NutAfterErr ==
    nut_client_process_input(
        [Enter(nut) EXCEPT !.read_buffer = N_ERR \o <<SP, "E", LF>>])

\* The one call of a task callback among the events of a handler.
OnlyCall(c) == EventsOf(c, "task_cb")[1]

\* C7 for the MPD client: in every state with a task queued and no partial
\* line buffered, a failure response is dispatched to the head task as a
\* failed response with its code and message, and nothing else changes:
\* no failure, the same socket, and what was buffered and queued stays.
C7_MpdAck ==
    (mpd.state = "MPD_CONNECTED" /\ mpd.got_hello /\ mpd.tasks # <<>>
     /\ mpd.read_buffer = <<>>)
    => /\ MpdAfterAck.ok
       /\ EventsOf(MpdAfterAck.c, "fail") = <<>>
       /\ EventsOf(MpdAfterAck.c, "on_failure") = <<>>
       /\ MpdAfterAck.c.state = "MPD_CONNECTED"
       /\ MpdAfterAck.c.socket = mpd.socket
       /\ MpdAfterAck.c.got_hello
       /\ MpdAfterAck.c.read_buffer = <<>>
       /\ IsPrefix(mpd.write_buffer, MpdAfterAck.c.write_buffer)
       /\ IsPrefix(Tail(mpd.tasks), MpdAfterAck.c.tasks)
       /\ MpdAfterAck.c.h_done
            = Append(mpd.h_done, [id |-> Head(mpd.tasks).id,
                                  callback |-> Head(mpd.tasks).callback])
       /\ Head(mpd.tasks).callback # "NULL"
          => /\ Len(EventsOf(MpdAfterAck.c, "task_cb")) = 1
             /\ OnlyCall(MpdAfterAck.c).id = Head(mpd.tasks).id
             /\ ~OnlyCall(MpdAfterAck.c).response.success
             /\ OnlyCall(MpdAfterAck.c).response.error = 5
             /\ OnlyCall(MpdAfterAck.c).response.list_offset = 0
             /\ OnlyCall(MpdAfterAck.c).response.current_command = <<"x">>
             /\ OnlyCall(MpdAfterAck.c).response.message_text = <<"m">>
             /\ OnlyCall(MpdAfterAck.c).data = mpd.data

\* C7 for the NUT client, outside a list and between two lines.
C7_NutErr ==
    (nut.state = "NUT_CONNECTED" /\ nut.tasks # <<>> /\ ~nut.in_list
     /\ nut.parser.state = "NUT_STATE_START_LINE" /\ nut.read_buffer = <<>>)
    => /\ NutAfterErr.ok
       /\ EventsOf(NutAfterErr.c, "fail") = <<>>
       /\ EventsOf(NutAfterErr.c, "on_failure") = <<>>
       /\ NutAfterErr.c.state = "NUT_CONNECTED"
       /\ NutAfterErr.c.socket = nut.socket
       /\ NutAfterErr.c.read_buffer = <<>>
       /\ IsPrefix(nut.write_buffer, NutAfterErr.c.write_buffer)
       /\ IsPrefix(Tail(nut.tasks), NutAfterErr.c.tasks)
       /\ NutAfterErr.c.h_done
            = Append(nut.h_done, [id |-> Head(nut.tasks).id,
                                  callback |-> Head(nut.tasks).callback])
       /\ Len(EventsOf(NutAfterErr.c, "task_cb")) = 1
       /\ OnlyCall(NutAfterErr.c).id = Head(nut.tasks).id
       /\ ~OnlyCall(NutAfterErr.c).response.success
       /\ OnlyCall(NutAfterErr.c).response.message = <<"E">>

\* C7: protocol-level errors are not fatal, for either client.
C7_ProtocolErrorsNotFatal ==
    IF proto = "mpd" THEN C7_MpdAck ELSE C7_NutErr

\* The MPD client has just handled the line L_ack, sent by its peer: the
\* head task's callback got the failed response, the client is connected and
\* the next task waits.
C7_Witness ==
    /\ proto = "mpd"
    /\ mpd.state = "MPD_CONNECTED"
    /\ mpd.tasks # <<>>
    /\ \E i \in 1..(Len(mpd.h_events) - 1) :
         /\ mpd.h_events[i].kind = "line"
         /\ mpd.h_events[i].line = L_ack
         /\ mpd.h_events[i + 1].kind = "task_cb"
         /\ ~mpd.h_events[i + 1].response.success

----------------------------------------------------------------------------
\* Properties of ApiSpec.

\* C4: between two handlers the idling flag of the MPD client is set exactly
\* when the last command line it serialized on this connection is the idle
\* command; after a reset there is no such line and the flag is clear.
C4_IdlingFlag ==
    ~mpd.h_aborted => (mpd.idling <=> IsIdleLine(mpd.h_last_line))

\* The client idles on its second connection, after a reset, and an earlier
\* idle has been interrupted by a command.
C4_Witness ==
    /\ mpd.idling
    /\ mpd.h_conns = 2
    /\ \E i \in 1..(Len(mpd.h_done) - 1) :
         /\ mpd.h_done[i].callback = "mpd_client_on_idle_return"
         /\ mpd.h_done[i + 1].callback = "on_command"

\* The calls of task callbacks the last handler made.
TaskCalls == EventsOf(mpd, "task_cb")

\* What C3 says of every call of a task callback: the idle task gets the
\* completion of idle, with the notifications that arrived and nothing of
\* another command's answer; a command's task gets that command's answer.
C3_OwnResponse(e) ==
    /\ e.response.success
    /\ e.callback = "mpd_client_on_idle_return"
       => /\ IsIdleLine(e.lines[Len(e.lines)])
          /\ e.data \in {<<>>, <<L_changed_player>>}
    /\ e.callback = "on_command"
       => e.data = SrvAnswer(e.lines[Len(e.lines)])

C3_InOrder ==
    /\ IsIncreasing(mpd.h_called)
    /\ IsIncreasing(Ids(mpd.h_done))
    /\ \A i \in 1..Len(TaskCalls) : C3_OwnResponse(TaskCalls[i])

\* Nothing is in flight: the peer has read and answered all the client
\* wrote, and the client has read all the peer sent.
Quiescent ==
    /\ mpd.state = "MPD_CONNECTED"
    /\ ~mpd.h_aborted
    /\ wire = <<>>
    /\ srv.inbuf = <<>>
    /\ mpd.write_buffer = <<>>
    /\ mpd.read_buffer = <<>>

\* C3: with a peer that completes a pending idle on noidle and ignores
\* noidle otherwise, an idle task interrupted by a command is completed
\* first, and the command next, each with its own response, however the
\* peer's notification and the client's noidle cross.  Both completions do
\* occur: once nothing is in flight, no task is left but an idle task the
\* peer is still idling for.
C3_IdleInterruption ==
    /\ C3_InOrder
    /\ Quiescent
       => \/ mpd.tasks = <<>>
          \/ /\ Len(mpd.tasks) = 1
             /\ mpd.tasks[1].callback = "mpd_client_on_idle_return"
             /\ srv.idle

\* One handler has completed the idle task with a notification that crossed
\* the client's noidle, and then the command that interrupted it.
C3_Witness ==
    \E i \in 1..(Len(TaskCalls) - 1) :
        /\ TaskCalls[i].callback = "mpd_client_on_idle_return"
        /\ TaskCalls[i].data = <<L_changed_player>>
        /\ TaskCalls[i + 1].callback = "on_command"
        /\ TaskCalls[i + 1].id = TaskCalls[i].id + 1
        /\ TaskCalls[i + 1].lines = <<S_noidle, S_status>>
        /\ TaskCalls[i + 1].data = <<SrvData(S_status)>>
        /\ Quiescent
        /\ mpd.tasks = <<>>

\* The lines of a command list of k commands, and the data lines the peer
\* answers it with.
ListLines(k) ==
    <<S_list_begin>>
    \o [i \in 1..k |-> MpdSerialize(ApiListCommands(k)[i])]
    \o <<S_list_end>>

ListData(k) == [i \in 1..k |-> SrvData(MpdSerialize(ApiListCommands(k)[i]))]

\* The tasks of command lists: those queued, and those whose callback the
\* last handler called.
ListTasks ==
    {mpd.tasks[i] : i \in {j \in 1..Len(mpd.tasks) :
                             mpd.tasks[j].callback = "on_list"}}

ListCalls ==
    {TaskCalls[i] : i \in {j \in 1..Len(TaskCalls) :
                             TaskCalls[j].callback = "on_list"}}

\* C10 as stated: the one task of a command list of k commands stands for
\* exactly the k + 2 lines of the list, and it is dispatched once, with a
\* successful response that carries the data lines of all k commands.
C10_ListIsOneTask ==
    /\ \A t \in ListTasks : \E k \in 0..MaxListLen : t.lines = ListLines(k)
    /\ \A e \in ListCalls :
         \E k \in 0..MaxListLen :
             /\ e.lines = ListLines(k)
             /\ e.response.success
             /\ e.data = ListData(k)
    /\ NoDuplicates(Ids(mpd.h_done))
    /\ NoDuplicates(mpd.h_called)

\* C10, amended: as C10_ListIsOneTask, but when the client is flagged as
\* idling the list is preceded by a noidle line, k + 3 lines in all.
C10_ListIsOneTaskAfterNoidle ==
    /\ \A t \in ListTasks :
         \E k \in 0..MaxListLen :
             t.lines \in {ListLines(k), <<S_noidle>> \o ListLines(k)}
    /\ \A e \in ListCalls :
         \E k \in 0..MaxListLen :
             /\ e.lines \in {ListLines(k), <<S_noidle>> \o ListLines(k)}
             /\ e.response.success
             /\ e.data = ListData(k)
    /\ NoDuplicates(Ids(mpd.h_done))
    /\ NoDuplicates(mpd.h_called)

\* A list of two commands, sent while idling, has been answered: its task
\* got the two data lines.
C10_Witness ==
    \E e \in ListCalls :
        /\ e.lines = <<S_noidle>> \o ListLines(2)
        /\ e.data = ListData(2)
        /\ e.id \in DoneIds(mpd)

----------------------------------------------------------------------------
\* RoundTripSpec: an argument list is serialized as the NUT client does, and
\* the line is pushed into the tokenizer byte by byte.

\* The bytes of the arguments: a plain byte, and the bytes that force quoting
\* or escaping.
RtBytes == {"a", SP, DQ, BS}

RtArguments == UNION {[1..n -> RtBytes] : n \in 0..MaxArgLen}

RtArgLists == UNION {[1..n -> RtArguments] : n \in 0..MaxArgs}

RtStart(args) ==
    [args |-> args, bytes |-> nut_client_serialize(args) \o <<LF>>, pos |-> 0,
     parser |-> NutParserInit, lines |-> <<>>, error |-> FALSE]

RtInit ==
    /\ proto = "nut"
    /\ mpd = MpdClientInit
    /\ nut = NutClientInit
    /\ wire = <<>>
    /\ srv = SrvInit
    /\ rt \in {RtStart(args) : args \in RtArgLists}
    /\ ck = CkIdle

\* What the loop of nut_client_process_input sees for the next byte: lines
\* holds the fields of every complete line, and where it ended.
RtPush ==
    /\ rt.pos < Len(rt.bytes)
    /\ ~rt.error
    /\ rt' = Bind(nut_parser_push(rt.parser, rt.bytes[rt.pos + 1]),
                  LAMBDA pushed :
                      [rt EXCEPT
                          !.pos = @ + 1,
                          !.parser = pushed.parser,
                          !.lines = IF pushed.res = 1
                                    THEN Append(@, [at |-> rt.pos + 1,
                                                    fields |-> pushed.parser.fields])
                                    ELSE @,
                          !.error = (pushed.res = -1)])
    /\ UNCHANGED <<proto, mpd, nut, wire, srv, ck>>

RoundTripSpec == RtInit /\ [][RtPush]_vars

\* What C8 says of a run: no error, no line before the last byte, and at
\* the last byte one line whose fields are the arguments.
RtRoundTrip ==
    /\ ~rt.error
    /\ rt.pos < Len(rt.bytes) => rt.lines = <<>>
    /\ rt.pos = Len(rt.bytes)
       => rt.lines = <<[at |-> Len(rt.bytes), fields |-> rt.args]>>

\* C8 as stated: every argument list survives the round trip.
C8_RoundTrip == RtRoundTrip

\* C8, amended: every argument list that is not empty survives the round
\* trip.  (The empty list is serialized as an empty line, and the tokenizer
\* skips empty lines.)
C8_RoundTripNonEmpty == rt.args # <<>> => RtRoundTrip

\* Two arguments that need quoting and escaping have made the round trip.
C8_Witness ==
    /\ rt.args = <<<<"a", SP>>, <<DQ, BS>>>>
    /\ rt.pos = Len(rt.bytes)
    /\ rt.lines # <<>>

----------------------------------------------------------------------------
\* ChunkSpec: a stream of the peer's bytes reaches a connected client in
\* successive reads of any sizes.

ChunkMpdLines == {L_greeting, S_OK, L_ack, L_changed_player}

ChunkNutLines ==
    {N_BEGIN \o <<SP>> \o N_LIST, N_UPS \o <<SP, DQ, "u", SP, "v", DQ>>,
     N_END \o <<SP>> \o N_LIST, N_ERR \o <<SP, "E">>}

\* Up to MaxStreamLines lines, with or without the start of one more.
Streams(lines) ==
    {SrvBytes(ls) \o tail :
        ls \in UNION {[1..n -> lines] : n \in 0..MaxStreamLines},
        tail \in {<<>>, <<"O">>}}

\* The clients of dwmstatus right after they have connected.
MpdChunkStart == on_mpd_reconnect(MpdClientInit, TRUE, "ok", 1)

NutChunkStart ==
    nut_client_on_connector_connected(on_nut_reconnect(NutClientInit), 1)

\* The socket is readable and not writable: the client reads these bytes.
\* The history across the reads of a stream: what the client did with the
\* bytes, whatever the reads that brought them.
SansReads(c) ==
    [c EXCEPT !.h_events = SelectSeq(@, LAMBDA e : e.kind # "read")]

MpdReceive(c, bytes) ==
    SansReads(mpd_client_on_ready(c, ReadResult(bytes, "SOCKET_IO_OK"),
                                  WriteResult("none", "SOCKET_IO_OK")))

NutReceive(c, bytes) ==
    SansReads(nut_client_on_ready(c, ReadResult(bytes, "SOCKET_IO_OK"),
                                  WriteResult("none", "SOCKET_IO_OK")))

ChunkInit ==
    /\ proto \in {"mpd", "nut"}
    /\ mpd = IF proto = "mpd" THEN MpdChunkStart ELSE MpdClientInit
    /\ nut = IF proto = "nut" THEN NutChunkStart ELSE NutClientInit
    /\ wire = <<>>
    /\ srv = SrvInit
    /\ rt = RtIdle
    /\ ck \in {[proto |-> proto, stream |-> stream, pos |-> 0,
                 split |-> FALSE] :
                 stream \in Streams(IF proto = "mpd" THEN ChunkMpdLines
                                    ELSE ChunkNutLines)}

\* The stream after a read of n more bytes; split: some read so far has
\* ended inside a line, with more of the stream to come.
ChunkAdvance(n) ==
    [ck EXCEPT !.pos = @ + n,
               !.split = @ \/ (ck.pos + n < Len(ck.stream)
                               /\ ck.stream[ck.pos + n] # LF)]

ChunkMpdRead ==
    /\ proto = "mpd"
    /\ mpd.state = "MPD_CONNECTED"
    /\ \E n \in 1..(Len(ck.stream) - ck.pos) :
         /\ mpd' = MpdReceive(mpd, SubSeq(ck.stream, ck.pos + 1, ck.pos + n))
         /\ ck' = ChunkAdvance(n)
    /\ UNCHANGED <<proto, nut, wire, srv, rt>>

ChunkNutRead ==
    /\ proto = "nut"
    /\ nut.state = "NUT_CONNECTED"
    /\ \E n \in 1..(Len(ck.stream) - ck.pos) :
         /\ nut' = NutReceive(nut, SubSeq(ck.stream, ck.pos + 1, ck.pos + n))
         /\ ck' = ChunkAdvance(n)
    /\ UNCHANGED <<proto, mpd, wire, srv, rt>>

ChunkNext == ChunkMpdRead \/ ChunkNutRead

ChunkSpec == ChunkInit /\ [][ChunkNext]_vars

\* The part of the stream read so far.
ChunkPrefix == SubSeq(ck.stream, 1, ck.pos)

\* The complete lines of a byte string, and what follows the last of them.
RECURSIVE CompleteLines(_)
CompleteLines(bytes) ==
    IF IndexFrom(bytes, LF, 1) = 0 THEN <<>>
    ELSE <<SubSeq(bytes, 1, IndexFrom(bytes, LF, 1) - 1)>>
         \o CompleteLines(SubSeq(bytes, IndexFrom(bytes, LF, 1) + 1, Len(bytes)))

RECURSIVE PartialLine(_)
PartialLine(bytes) ==
    IF IndexFrom(bytes, LF, 1) = 0 THEN bytes
    ELSE PartialLine(SubSeq(bytes, IndexFrom(bytes, LF, 1) + 1, Len(bytes)))

\* The lines a client has classified, in order.
LinesSeen(c) ==
    [i \in 1..Len(EventsOf(c, "line")) |-> EventsOf(c, "line")[i].line]

\* C9: however the stream is split into reads, the client is, after every
\* read, exactly as if the bytes read so far had come in one read: the same
\* lines classified, the same callbacks called with the same data, the same
\* state.  The MPD client has classified the complete lines read so far and
\* nothing else (all of them unless it failed), and keeps the partial line.
C9_ChunkingInvariance ==
    /\ ck.pos > 0
       => IF proto = "mpd" THEN mpd = MpdReceive(MpdChunkStart, ChunkPrefix)
          ELSE nut = NutReceive(NutChunkStart, ChunkPrefix)
    /\ proto = "mpd"
       => /\ IsPrefix(LinesSeen(mpd), CompleteLines(ChunkPrefix))
          /\ mpd.state = "MPD_CONNECTED"
             => /\ LinesSeen(mpd) = CompleteLines(ChunkPrefix)
                /\ mpd.read_buffer = PartialLine(ChunkPrefix)

\* The MPD client has read the greeting, a notification and OK in reads of
\* which one ended inside a line, and has dispatched the first task; the
\* start of the next line is kept.
C9_Witness ==
    /\ proto = "mpd"
    /\ ck.split
    /\ ck.stream = SrvBytes(<<L_greeting, L_changed_player, S_OK>>) \o <<"O">>
    /\ ck.pos = Len(ck.stream)
    /\ mpd.read_buffer = <<"O">>
    /\ Len(mpd.h_done) = 1

----------------------------------------------------------------------------
\* Properties of OwnerSpec.

\* The lines of a piece of h_lines, and those of them that count as data.
LinesOf(h) == [i \in 1..Len(h) |-> h[i].line]

DataLines(h) == LinesOf(SelectSeq(h, LAMBDA x : x.data))

Front(h) == SubSeq(h, 1, Len(h) - 1)

\* What arrived after the last line that ended a response.
AfterLastTerminal(h) ==
    IF \A i \in 1..Len(h) : ~h[i].terminal THEN h
    ELSE SubSeq(h, 1 + CHOOSE i \in 1..Len(h) :
                         /\ h[i].terminal
                         /\ \A j \in (i + 1)..Len(h) : ~h[j].terminal,
                Len(h))

\* The calls of task callbacks the last handler of the MPD client made.
MpdTaskCalls == EventsOf(mpd, "task_cb")

\* C11 as stated: the callback of the head task gets the data lines that
\* arrived since the previous terminal line, with success exactly on OK, and
\* no data is left once a task is completed.
C11_DataSinceTerminal ==
    proto = "mpd"
    => /\ \A i \in 1..Len(MpdTaskCalls) :
            /\ MpdTaskCalls[i].data
                 = DataLines(AfterLastTerminal(Front(MpdTaskCalls[i].received)))
            /\ MpdTaskCalls[i].response.success
                 <=> MpdTaskCalls[i].received[Len(MpdTaskCalls[i].received)].line
                      = S_OK
       /\ mpd.h_lines = <<>> => mpd.data = <<>>

\* C11, amended: the callback gets the data lines that arrived since a task
\* was last completed (since the greeting, for the first task), those of
\* responses that ended while no task was queued included.
C11_DataSinceCompletion ==
    proto = "mpd"
    => /\ \A i \in 1..Len(MpdTaskCalls) :
            /\ MpdTaskCalls[i].data = DataLines(Front(MpdTaskCalls[i].received))
            /\ MpdTaskCalls[i].response.success
                 <=> MpdTaskCalls[i].received[Len(MpdTaskCalls[i].received)].line
                      = S_OK
       /\ mpd.data = DataLines(mpd.h_lines)
       /\ mpd.h_lines = <<>> => mpd.data = <<>>

\* A task has got the data line of its own response, after a response had
\* ended with no task queued.
C11_Witness ==
    /\ proto = "mpd"
    /\ \E i \in 1..Len(MpdTaskCalls) :
         /\ MpdTaskCalls[i].response.success
         /\ MpdTaskCalls[i].received
              = <<[line |-> S_OK, terminal |-> TRUE, data |-> FALSE],
                  [line |-> L_changed_player, terminal |-> FALSE, data |-> TRUE],
                  [line |-> S_OK, terminal |-> TRUE, data |-> FALSE]>>
         /\ MpdTaskCalls[i].data = <<L_changed_player>>

\* The connected state of the client this behaviour exercises.
Connected == IF proto = "mpd" THEN "MPD_CONNECTED" ELSE "NUT_CONNECTED"

\* The line is a NUT 'ERR' with no message: nut_client_parse_line rejects
\* it, with or without a task queued.
IsBareErr(line) == proto = "nut" /\ line = <<N_ERR>>

\* What C12 says of the handler that receives a response while no task is
\* queued: no callback runs, the queue stays empty, the client stays
\* connected.  A NUT 'ERR' with no message is no response.
C12_Ignored ==
    \A i \in 1..Len(Client.h_events) :
        (/\ Client.h_events[i].kind = "line"
         /\ Client.h_events[i].terminal
         /\ Client.h_events[i].queue = <<>>
         /\ ~IsBareErr(Client.h_events[i].line))
        => IF i < Len(Client.h_events)
           THEN /\ Client.h_events[i + 1].kind = "line"
                /\ Client.h_events[i + 1].queue = <<>>
           ELSE /\ Client.tasks = <<>>
                /\ Client.state = Connected

\* C12 as stated: a response that ends while no task is queued is ignored
\* and leaves nothing behind: no data is kept once it has ended, and a task
\* completed later gets the data of its own response only.
C12_NoResidue ==
    /\ C12_Ignored
    /\ (Client.h_lines # <<>> /\ Client.h_lines[Len(Client.h_lines)].terminal)
       => Client.data = <<>>
    /\ \A i \in 1..Len(Client.h_events) :
         Client.h_events[i].kind = "task_cb"
         => Client.h_events[i].data
              = DataLines(
                    AfterLastTerminal(Front(Client.h_events[i].received))
                    \o <<Client.h_events[i].received[
                              Len(Client.h_events[i].received)]>>)

\* C12, amended: such a response is ignored, but its data lines are kept:
\* the accumulated data is at any time all the data lines that arrived since
\* a task was last completed, and the next task completed gets all of them.
C12_ResidueKept ==
    /\ C12_Ignored
    /\ Client.data = DataLines(Client.h_lines)
    /\ \A i \in 1..Len(Client.h_events) :
         Client.h_events[i].kind = "task_cb"
         => Client.h_events[i].data = DataLines(Client.h_events[i].received)

\* The NUT client has ignored a line that arrived while no task was queued,
\* and a task enqueued later has been completed by the next line: it got
\* both lines.
C12_Witness ==
    /\ proto = "nut"
    /\ nut.state = "NUT_CONNECTED"
    /\ \E i \in 1..Len(nut.h_events) :
         /\ nut.h_events[i].kind = "task_cb"
         /\ Len(nut.h_events[i].received) = 2
         /\ nut.h_events[i].received[1].terminal
         /\ nut.h_events[i].received[1].data
         /\ Len(nut.h_events[i].data) = 2

----------------------------------------------------------------------------
\* SerializeSpec: an argument list is serialized by both clients.

\* The bytes of the arguments: a plain byte, and the bytes either serializer
\* treats specially.
SerBytes == {"a", SP, DQ, BS, SQ}

\* The bytes of one argument list, all arguments together.
MaxSerBytes == 4

SerArguments == UNION {[1..n -> SerBytes] : n \in 0..MaxArgLen}

SerInit ==
    /\ proto = "none"
    /\ mpd = MpdClientInit
    /\ nut = NutClientInit
    /\ wire = <<>>
    /\ srv = SrvInit
    /\ \E n \in 0..MaxArgs : \E args \in [1..n -> SerArguments] :
           /\ Len(Flatten(args)) <= MaxSerBytes
           /\ rt = [args |-> args, done |-> FALSE, mpd |-> <<>>, nut |-> <<>>]
    /\ ck = CkIdle

\* The line each client appends to its write buffer for the arguments.
SerSerialize ==
    /\ ~rt.done
    /\ rt' = [rt EXCEPT !.done = TRUE,
                        !.mpd = MpdSerialize(rt.args),
                        !.nut = nut_client_serialize(rt.args)]
    /\ UNCHANGED <<proto, mpd, nut, wire, srv, ck>>

SerializeSpec == SerInit /\ [][SerSerialize]_vars

\* The bytes of the model up to 0x20.
SerLowBytes == {b \in SerBytes : Ord(b) <= 32}

\* A reference serializer: an argument is quoted when it is empty or holds
\* a byte of `quoting`; inside the quotes the bytes of `escaped` get a
\* backslash; the arguments are joined by one space.
RefArgument(arg, quoting, escaped) ==
    IF arg # <<>> /\ Range(arg) \cap quoting = {} THEN arg
    ELSE <<DQ>>
         \o Flatten([i \in 1..Len(arg) |->
                IF arg[i] \in escaped THEN <<BS, arg[i]>> ELSE <<arg[i]>>])
         \o <<DQ>>

RECURSIVE RefSerialize(_, _, _)
RefSerialize(args, quoting, escaped) ==
    IF args = <<>> THEN <<>>
    ELSE IF Len(args) = 1 THEN RefArgument(args[1], quoting, escaped)
    ELSE RefArgument(args[1], quoting, escaped) \o <<SP>>
         \o RefSerialize(Tail(args), quoting, escaped)

\* C13 as stated: both serializers quote an argument that is empty or holds
\* a byte up to 0x20 or a double quote (NUT: or a backslash), and escape
\* only the double quote (NUT: and the backslash) inside the quotes.
C13_SerializerReference ==
    rt.done
    => /\ rt.mpd = RefSerialize(rt.args, SerLowBytes \cup {DQ}, {DQ})
       /\ rt.nut = RefSerialize(rt.args, SerLowBytes \cup {DQ, BS}, {DQ, BS})

\* C13, amended: the NUT serializer is as stated; the MPD serializer also
\* quotes an argument that holds a single quote, and inside the quotes it
\* escapes every byte that forces quoting: bytes up to 0x20, the double
\* quote and the single quote.
C13_SerializerActual ==
    rt.done
    => /\ rt.mpd = RefSerialize(rt.args, SerLowBytes \cup {DQ, SQ},
                                SerLowBytes \cup {DQ, SQ})
       /\ rt.nut = RefSerialize(rt.args, SerLowBytes \cup {DQ, BS}, {DQ, BS})

\* A plain argument and one with a space and a double quote have been
\* serialized; the two serializers differ on the space.
C13_Witness ==
    /\ rt.done
    /\ rt.args = <<<<"a">>, <<SP, DQ>>>>
    /\ rt.nut = <<"a", SP, DQ, SP, BS, DQ, DQ>>
    /\ rt.mpd = <<"a", SP, DQ, BS, SP, BS, DQ, DQ>>

----------------------------------------------------------------------------
\* Properties of Spec: connecting, readiness and completion.

\* The kinds of the events of the last handler, in order.
Kinds(c) == [i \in 1..Len(c.h_events) |-> c.h_events[i].kind]

\* The index of the first event of a kind among those of the last handler,
\* or 0.
FirstEvent(c, kind) ==
    IF EventsOf(c, kind) = <<>> THEN 0
    ELSE CHOOSE i \in 1..Len(c.h_events) :
             /\ c.h_events[i].kind = kind
             /\ \A j \in 1..(i - 1) : c.h_events[j].kind # kind

MpdGreetingState ==
    proto = "mpd" /\ ~mpd.h_aborted
    => /\ \A i \in 1..Len(mpd.h_events) :
            mpd.h_events[i].kind = "on_connected"
            => /\ mpd.h_events[i].seen.state = "MPD_CONNECTED"
               /\ ~mpd.h_events[i].seen.got_hello
               /\ mpd.h_events[i].seen.tasks = <<>>
               /\ mpd.h_events[i].seen.write_buffer = <<>>
       /\ mpd.got_hello => mpd.state = "MPD_CONNECTED"
       /\ mpd.state = "MPD_CONNECTED" /\ ~mpd.got_hello => mpd.tasks # <<>>

\* What holds of the greeting in every step: a handler that starts without
\* a validated greeting and calls a task callback has first received a line
\* that is a greeting; one that ends with a validated greeting has received it.
MpdGreetingStep ==
    proto = "mpd" /\ mpd' # mpd /\ ~mpd.got_hello
    => /\ EventsOf(mpd', "task_cb") # <<>>
          => /\ FirstEvent(mpd', "line") # 0
             /\ FirstEvent(mpd', "line") < FirstEvent(mpd', "task_cb")
             /\ HasPrefix(mpd'.h_events[FirstEvent(mpd', "line")].line, S_hello)
       /\ mpd'.got_hello
          => /\ FirstEvent(mpd', "line") # 0
             /\ HasPrefix(mpd'.h_events[FirstEvent(mpd', "line")].line, S_hello)

ReadFailed(c) ==
    /\ c.h_events # <<>>
    /\ c.h_events[1].kind = "read"
    /\ c.h_events[1].result # "SOCKET_IO_OK"

\* C15 as stated: a readiness event whose read ends in EOF or an error
\* fails the client, of either protocol, with no line processed and no task
\* callback called.
C15_ReadFailureDiscards ==
    ReadFailed(Client)
    => /\ EventsOf(Client, "fail") # <<>>
       /\ EventsOf(Client, "line") = <<>>
       /\ EventsOf(Client, "task_cb") = <<>>

\* C15, amended: a readiness event whose read ends in EOF or an error always
\* fails the client.  The MPD client does so at once: nothing is processed,
\* no task callback runs, and what was buffered is dropped by the reset.
\* The NUT client first processes all it has buffered, the bytes received
\* with the EOF included, calling the callbacks of the tasks that complete,
\* and fails afterwards: unless a line is rejected, all of the input has been
\* consumed and a line that came with the EOF has been processed.
C15_ReadFailure ==
    ReadFailed(Client) /\ ~Client.h_aborted
    => /\ Len(EventsOf(Client, "fail")) = 1
       /\ FirstEvent(Client, "task_cb") <= FirstEvent(Client, "fail")
       /\ Client.read_buffer = <<>>
       /\ Client.state = IF proto = "mpd" THEN "MPD_DISCONNECTED"
                         ELSE "NUT_DISCONNECTED"
       /\ proto = "mpd"
          => [i \in 1..Len(mpd.h_events) |-> mpd.h_events[i].kind]
             \in {<<"read", "fail", "on_failure">>, <<"read", "fail">>}
       /\ proto = "nut" /\ LF \in Range(Client.h_events[1].bytes)
          => \/ EventsOf(Client, "line") # <<>>
             \/ EventsOf(Client, "fail")[1].before.read_buffer # <<>>

\* The NUT server sent the end of a list and closed the connection: the
\* client has called the callback of the task and failed afterwards.
C15_Witness ==
    /\ proto = "nut"
    /\ ReadFailed(nut)
    /\ nut.h_events[1].result = "SOCKET_IO_EOF"
    /\ EventsOf(nut, "task_cb") # <<>>
    /\ EventsOf(nut, "fail") # <<>>

\* C16: whenever a handler has returned and the client is Connected, the
\* socket is polled for input, and for output exactly when the write buffer
\* holds something; so it is after a command or idle was sent, after a
\* partial write, and after callbacks that sent commands.
C16_ReadinessRegistration ==
    Client.state = Connected /\ ~Client.h_aborted
    => /\ "POLLIN" \in Client.socket_event
       /\ "POLLOUT" \in Client.socket_event <=> Client.write_buffer # <<>>

\* A readiness event of the MPD client called a task callback, which sent
\* commands, and the socket then took only a part of the write buffer: the
\* rest waits, with POLLOUT asked for.
C16_Witness ==
    /\ proto = "mpd"
    /\ mpd.state = "MPD_CONNECTED"
    /\ EventsOf(mpd, "task_cb") # <<>>
    /\ mpd.h_accepted # <<>>
    /\ mpd.write_buffer # <<>>
    /\ mpd.idling
    /\ mpd.socket_event = {"POLLIN", "POLLOUT"}

\* C17: in dwmstatus Connect is only called on a Disconnected client: the
\* assertion of mpd_client_connect and nut_client_connect never fails, the
\* reconnect timer of MPD is only armed while the client is Disconnected, a
\* connector exists exactly while Connecting, and the client that starts
\* Connecting holds nothing of an earlier connection, the NUT reconnect
\* timer having reset a client that was still active.
C17_OneConnectionAttempt ==
    /\ \A i \in 1..Len(Client.h_events) :
         Client.h_events[i].kind = "abort"
         => Client.h_events[i].at
            \notin {"mpd_client_connect", "nut_client_connect"}
    /\ proto = "mpd" /\ mpd.ctx_mpd_reconnect => mpd.state = "MPD_DISCONNECTED"
    /\ Client.connector
       <=> Client.state = (IF proto = "mpd" THEN "MPD_CONNECTING"
                           ELSE "NUT_CONNECTING")
    /\ Client.connector
       => /\ Client.socket = -1
          /\ Client.tasks = <<>>
          /\ Client.read_buffer = <<>>
          /\ Client.write_buffer = <<>>
    /\ \A i \in 1..Len(Client.h_events) :
         Client.h_events[i].kind = "reset"
         => /\ Client.h_events[i].before.state # "NUT_DISCONNECTED"
            /\ Client.state = "NUT_CONNECTING"

\* The reconnect timer of NUT fired while the client was Connected with
\* tasks queued: the client was reset and is Connecting again.
C17_Witness ==
    /\ proto = "nut"
    /\ nut.state = "NUT_CONNECTING"
    /\ nut.connector
    /\ \E i \in 1..Len(nut.h_events) :
         /\ nut.h_events[i].kind = "reset"
         /\ nut.h_events[i].before.state = "NUT_CONNECTED"
         /\ nut.h_events[i].before.tasks # <<>>

\* C18: a task callback is only called by a readiness event, for a
\* response line that the event has just received: the handler began by
\* reading the socket, and the event right before the call is the terminal
\* line that completes the task.  So no callback is called by a handler that
\* sends commands, adds tasks, idles, connects, resets or is the watchdog,
\* and none is called from within another call.
C18_CompletionOnlyFromInput ==
    \A i \in 1..Len(Client.h_events) :
        Client.h_events[i].kind = "task_cb"
        => /\ Client.h_events[1].kind = "read"
           /\ i > 1
           /\ Client.h_events[i - 1].kind = "line"
           /\ Client.h_events[i - 1].terminal

\* A readiness event of the MPD client called the callback of the password
\* task, and the callback sent a command list, added its task and went idle:
\* none of these calls completed anything.
C18_Witness ==
    /\ proto = "mpd"
    /\ Len(EventsOf(mpd, "task_cb")) = 1
    /\ EventsOf(mpd, "task_cb")[1].callback = "mpd_on_password_response"
    /\ EventsOf(mpd, "task_cb")[1].response.success
    /\ mpd.idling
    /\ Len(mpd.tasks) = 2

----------------------------------------------------------------------------
\* Properties of OwnerSpec: the explicit reset.

\* C19: a reset by the owner, in whatever state the client is, leaves it
\* Disconnected with no socket, no connector, nothing polled, empty buffers,
\* no data, no task and its flags cleared; the handler calls no task
\* callback, none of the dropped tasks has had its callback called, and the
\* failure callback is not called; a second reset changes nothing.
C19_ExplicitReset ==
    \A i \in 1..Len(Client.h_events) :
        Client.h_events[i].kind = "reset"
        => /\ Len(Client.h_events) = 1
           /\ IF proto = "mpd" THEN MpdFullyReset(Observe(mpd))
              ELSE NutFullyReset(NutObserve(nut))
           /\ TaskIds(Client.h_events[i].before.tasks)
                 \cap Range(Client.h_called) = {}
           /\ TaskIds(Client.h_events[i].before.tasks) \subseteq Client.h_dropped
           /\ IF proto = "mpd" THEN mpd_client_reset(mpd) = mpd
              ELSE nut_client_reset(nut) = nut

\* The MPD client was reset while Connected past the greeting, inside a
\* command list, with a task queued and bytes to write.
C19_Witness ==
    /\ proto = "mpd"
    /\ mpd.h_events # <<>>
    /\ mpd.h_events[1].kind = "reset"
    /\ mpd.h_events[1].before.state = "MPD_CONNECTED"
    /\ mpd.h_events[1].before.got_hello
    /\ mpd.h_events[1].before.in_list
    /\ mpd.h_events[1].before.tasks # <<>>
    /\ mpd.h_events[1].before.write_buffer # <<>>

----------------------------------------------------------------------------
\* Properties of ApiSpec: the watchdog.

\* The task of the watchdog's ping is at index i of the queue.
IsPingTask(i) ==
    /\ mpd.tasks[i].callback = "NULL"
    /\ S_ping \in Range(mpd.tasks[i].lines)

\* C20 as stated: while the reply to the watchdog's ping is awaited, the
\* client is not idling and no idle command has been sent after the ping.
C20_RestoredOnReply ==
    \A i \in 1..Len(mpd.tasks) :
        IsPingTask(i)
        => /\ ~mpd.idling
           /\ \A j \in (i + 1)..Len(mpd.tasks) :
                mpd.tasks[j].callback # "mpd_client_on_idle_return"

\* In every state the task of a ping is followed in the queue by the task
\* of the idle command sent right after it.
PingThenIdle ==
    \A i \in 1..Len(mpd.tasks) :
        IsPingTask(i)
        => /\ i < Len(mpd.tasks)
           /\ mpd.tasks[i + 1].callback = "mpd_client_on_idle_return"
           /\ Len(mpd.tasks[i + 1].lines) = 1
           /\ IsIdleLine(mpd.tasks[i + 1].lines[1])

\* The watchdog's handler leaves the client idling for the subsystems it
\* idled for, the watchdog armed again, and the ping and the idle command
\* the last two tasks of the queue, nothing of theirs being received yet.
WatchdogRestores ==
    ApiTimeout /\ ~mpd'.h_aborted
    => /\ mpd.idling
       /\ mpd'.idling
       /\ mpd'.idling_subsystems = mpd.idling_subsystems
       /\ mpd'.timeout_timer
       /\ mpd'.h_last_line = MpdSerialize(MpdIdleCommand(mpd.idling_subsystems))
       /\ Len(mpd'.tasks) = Len(mpd.tasks) + 2
       /\ mpd'.tasks[Len(mpd.tasks) + 1].lines = <<S_noidle, S_ping>>
       /\ mpd'.tasks[Len(mpd.tasks) + 1].callback = "NULL"
       /\ mpd'.tasks[Len(mpd.tasks) + 2].callback = "mpd_client_on_idle_return"
       /\ EventsOf(mpd', "read") = <<>>

\* C20, amended: the watchdog's handler interrupts idle mode, sends its
\* ping and sends the idle command for the original subsystems again at
\* once, without waiting for the reply: the client is flagged idling again
\* when the handler returns, and the ping's task is always followed in the
\* queue by the restored idle's task.
C20_RestoredAtOnce == []PingThenIdle /\ [][WatchdogRestores]_vars

\* The watchdog has fired: the ping's reply is awaited, and the client is
\* idling again with the watchdog armed.
C20_Witness ==
    /\ mpd.idling
    /\ mpd.timeout_timer
    /\ mpd.idling_subsystems = {S_player}
    /\ Len(mpd.tasks) >= 2
    /\ IsPingTask(Len(mpd.tasks) - 1)
    /\ mpd.tasks[Len(mpd.tasks)].callback = "mpd_client_on_idle_return"

----------------------------------------------------------------------------
\* Properties of Spec: command lists, idle mode and the NUT parser.

\* The functions of the MPD client that assert on in_list.
ListAsserts ==
    {"mpd_client_list_begin", "mpd_client_list_end", "mpd_client_add_task",
     "mpd_client_idle"}

\* C21: in dwmstatus no assertion on in_list ever fails: no list is begun
\* inside a list, no list is ended outside one, no task is added and idle
\* mode is not entered inside a list; and no handler returns with a list
\* open.
C21_ListDiscipline ==
    proto = "mpd"
    => /\ \A i \in 1..Len(mpd.h_events) :
            mpd.h_events[i].kind = "abort"
            => mpd.h_events[i].at \notin ListAsserts
       /\ ~mpd.in_list

\* The owner has sent a command list and closed it, its one task is queued,
\* and a key press has since sent a command of its own and gone idle.
C21_Witness ==
    /\ proto = "mpd"
    /\ ~mpd.h_aborted
    /\ mpd.idling
    /\ \E i, j \in 1..Len(mpd.tasks) :
         /\ i < j
         /\ mpd.tasks[i].callback = "mpd_on_info_response"
         /\ mpd.tasks[i].lines[1] = S_list_begin
         /\ mpd.tasks[i].lines[Len(mpd.tasks[i].lines)] = S_list_end
         /\ mpd.tasks[j].callback = "NULL"

\* The task at position i of the MPD queue belongs to an idle command.
IsIdleTask(i) == mpd.tasks[i].callback = "mpd_client_on_idle_return"

Interrupts == mpd.idling /\ (ApiCommand \/ ApiList \/ ApiIdle \/ ApiTimeout)

\* The lines of the tasks the step has added to the queue.
AddedLines ==
    Flatten([i \in 1..Len(mpd'.tasks) - Len(mpd.tasks) |->
                 mpd'.tasks[Len(mpd.tasks) + i].lines])

LineRead == EventsOf(mpd', "line")[1]

\* The step has failed the client.
StepFails == EventsOf(mpd', "fail") # <<>>

\* C26: the first line the MPD client processes on a connection is the
\* greeting and nothing else: one that starts with 'OK MPD ' calls no task
\* callback, is kept out of the data and leaves the queue as it is, tasks
\* or not; any other fails the client, which is reset before the failure
\* callback runs.  A later line is a response, completing the task at the
\* head, or a data line, and one that starts with 'OK MPD ' is a data line.
C26_GreetingOnlyFirst ==
    [][proto = "mpd" /\ mpd' # mpd /\ EventsOf(mpd', "line") # <<>>
       => /\ Len(EventsOf(mpd', "line")) = 1
          /\ ~mpd.got_hello /\ HasPrefix(LineRead.line, S_hello)
             => /\ EventsOf(mpd', "task_cb") = <<>>
                /\ mpd'.h_called = mpd.h_called
                /\ mpd'.data = <<>>
                /\ ~StepFails
                   => /\ mpd'.got_hello
                      /\ mpd'.tasks = mpd.tasks
                      /\ mpd'.h_lines = <<>>
          /\ ~mpd.got_hello /\ ~HasPrefix(LineRead.line, S_hello)
             => /\ Kinds(mpd') = <<"read", "line", "fail", "on_failure">>
                /\ mpd'.h_events[4].seen.state = "MPD_DISCONNECTED"
                /\ mpd'.h_events[4].seen.tasks = <<>>
                /\ ~mpd'.got_hello
                /\ mpd'.h_called = mpd.h_called
          /\ mpd.got_hello
             => /\ HasPrefix(LineRead.line, S_hello) => ~LineRead.terminal
                /\ LineRead.terminal /\ mpd.tasks # <<>>
                   => /\ mpd'.h_done
                           = Append(mpd.h_done,
                                    [id |-> Head(mpd.tasks).id,
                                     callback |-> Head(mpd.tasks).callback])
                      /\ Head(mpd.tasks).callback # "NULL"
                         => /\ Len(EventsOf(mpd', "task_cb")) = 1
                            /\ EventsOf(mpd', "task_cb")[1].id
                                 = Head(mpd.tasks).id
                /\ ~LineRead.terminal
                   => /\ EventsOf(mpd', "task_cb") = <<>>
                      /\ ~StepFails
                         => /\ mpd'.data = Append(mpd.data, LineRead.line)
                            /\ mpd'.got_hello
                            /\ mpd'.tasks = mpd.tasks]_vars

\* After the greeting, with tasks queued all along, a second line that
\* starts with 'OK MPD ' has become a data line.
C26_Witness ==
    /\ proto = "mpd"
    /\ mpd.got_hello
    /\ mpd.tasks # <<>>
    /\ mpd.h_called = <<>>
    /\ mpd.data = <<L_greeting>>
    /\ EventsOf(mpd, "line") # <<>>

\* The calls of task callbacks the last handler of the NUT client made.
NutTaskCalls == EventsOf(nut, "task_cb")

\* The line is the marker that begins (N_BEGIN) or ends (N_END) a list.
IsListMarker(fields, word) ==
    Len(fields) >= 2 /\ fields[1] = word /\ fields[2] = N_LIST

\* The lines of h that are no list markers.
SansMarkers(h) ==
    LinesOf(SelectSeq(h, LAMBDA x : /\ ~IsListMarker(x.line, N_BEGIN)
                                    /\ ~IsListMarker(x.line, N_END)))

\* The last of the lines a task callback was called upon.
LastOf(h) == h[Len(h)].line

\* The lines of the response that the last line of h ends: for 'END LIST'
\* the lines of the list, which are those that arrived since the response
\* before it ended, the markers left out; for another line the line itself.
OwnResponse(h) ==
    IF IsListMarker(LastOf(h), N_END)
    THEN SansMarkers(AfterLastTerminal(Front(h)))
    ELSE <<LastOf(h)>>

\* The callback is called right after a line outside a list or an
\* 'END LIST', with success unless the line's first field is 'ERR', whose
\* second field is then the message; other lines call nothing.
NutDispatchedBy(i) ==
    /\ i > 1
    /\ nut.h_events[i - 1].kind = "line"
    /\ nut.h_events[i - 1].terminal
    /\ nut.h_events[i - 1].line = LastOf(nut.h_events[i].received)
    /\ nut.h_events[i - 1].queue # <<>>
    /\ nut.h_events[i].id = nut.h_events[i - 1].queue[1]
    /\ nut.h_events[i].response.success
         <=> LastOf(nut.h_events[i].received)[1] # N_ERR
    /\ ~nut.h_events[i].response.success
       => nut.h_events[i].response.message
            = LastOf(nut.h_events[i].received)[2]

\* A line in a list and 'BEGIN LIST' are not terminal, 'END LIST' and any
\* other line are; a terminal line with a task queued is followed by the
\* call of the head task's callback.
NutLineDispatches(i, dispatched) ==
    /\ IsListMarker(nut.h_events[i].line, N_BEGIN) => ~nut.h_events[i].terminal
    /\ IsListMarker(nut.h_events[i].line, N_END) => nut.h_events[i].terminal
    /\ (nut.h_events[i].terminal /\ nut.h_events[i].queue # <<>> /\ dispatched)
       => /\ i < Len(nut.h_events)
          /\ nut.h_events[i + 1].kind = "task_cb"

\* C29 as stated: every line outside a list is dispatched with itself as the
\* only data, and 'END LIST' with the lines of its list.
C29_ListAggregation ==
    proto = "nut"
    => \A i \in 1..Len(nut.h_events) :
         /\ nut.h_events[i].kind = "task_cb"
            => /\ NutDispatchedBy(i)
               /\ nut.h_events[i].data = OwnResponse(nut.h_events[i].received)
         /\ nut.h_events[i].kind = "line" => NutLineDispatches(i, TRUE)

\* C29, amended: a line outside a list and 'END LIST' are dispatched, a
\* line in a list and 'BEGIN LIST' are not, except that an 'ERR' line with
\* no second field outside a list fails the client instead.  The data
\* dispatched is every line but the markers received since a task was last
\* completed: the line itself, or the lines of the list, when every
\* response before it found a task waiting, and the lines of the responses
\* that found none in front of them otherwise.
C29_ListAggregationSinceCompletion ==
    proto = "nut"
    => \A i \in 1..Len(nut.h_events) :
         /\ nut.h_events[i].kind = "task_cb"
            => /\ NutDispatchedBy(i)
               /\ nut.h_events[i].data = SansMarkers(nut.h_events[i].received)
               /\ (\A j \in 1..Len(nut.h_events[i].received) - 1 :
                       ~nut.h_events[i].received[j].terminal)
                  => nut.h_events[i].data
                       = OwnResponse(nut.h_events[i].received)
         /\ nut.h_events[i].kind = "line"
            => /\ NutLineDispatches(i, nut.h_events[i].line # <<N_ERR>>)
               /\ (nut.h_events[i].terminal /\ nut.h_events[i].line = <<N_ERR>>)
                  => /\ i < Len(nut.h_events)
                     /\ nut.h_events[i + 1].kind = "fail"

\* A list of one line has been dispatched to the task that waited: it got
\* that line only.
C29_Witness ==
    /\ proto = "nut"
    /\ \E i \in 1..Len(NutTaskCalls) :
         /\ Len(NutTaskCalls[i].received) = 3
         /\ IsListMarker(NutTaskCalls[i].received[1].line, N_BEGIN)
         /\ IsListMarker(NutTaskCalls[i].received[3].line, N_END)
         /\ NutTaskCalls[i].data = <<NutTaskCalls[i].received[2].line>>
         /\ NutTaskCalls[i].response.success

----------------------------------------------------------------------------
\* ParseSpec: the NUT client of dwmstatus, connected and waiting for the
\* response to its first command, receives a stream of bytes one at a time.

ParseBytes == {"a", SP, DQ, BS, LF}

ParseStreams == UNION {[1..n -> ParseBytes] : n \in 0..MaxParseLen}

ParseInit ==
    /\ proto = "nut"
    /\ mpd = MpdClientInit
    /\ nut = NutChunkStart
    /\ wire = <<>>
    /\ srv = SrvInit
    /\ rt = RtIdle
    /\ ck \in {[proto |-> "nut", stream |-> stream, pos |-> 0,
                 split |-> FALSE] : stream \in ParseStreams}

\* The byte the client reads next.
ParseByte == ck.stream[ck.pos + 1]

\* The socket is readable and not writable: the client reads one byte.
ParsePush ==
    /\ nut.state = "NUT_CONNECTED"
    /\ ~nut.h_aborted
    /\ ck.pos < Len(ck.stream)
    /\ nut' = nut_client_on_ready(Enter(nut),
                                  ReadResult(<<ParseByte>>, "SOCKET_IO_OK"),
                                  WriteResult("none", "SOCKET_IO_OK"))
    /\ ck' = [ck EXCEPT !.pos = @ + 1]
    /\ UNCHANGED <<proto, mpd, wire, srv, rt>>

ParseSpec == ParseInit /\ [][ParsePush]_vars

\* The byte read next is a double quote inside an unquoted field, or
\* something other than white space right after a closing quote.
StructuralError ==
    \/ nut.parser.state = "NUT_STATE_UNQUOTED" /\ ParseByte = DQ
    \/ nut.parser.state = "NUT_STATE_QUOTED_END" /\ ~isspace_ascii(ParseByte)

\* C22: when the NUT client reads a double quote inside an unquoted field,
\* or a byte other than white space right after a closing quote, it resets
\* and calls the failure callback; no line is taken, no task callback is
\* called, and the tasks that waited are dropped uncalled.
C22_StructuralErrorFails ==
    [][ParsePush /\ StructuralError
       => /\ Kinds(nut') = <<"read", "fail", "on_failure">>
          /\ NutFullyReset(nut'.h_events[3].seen)
          /\ nut'.state = "NUT_DISCONNECTED"
          /\ nut'.h_called = nut.h_called
          /\ TaskIds(nut.tasks) \subseteq nut'.h_dropped]_vars

\* The client has failed on a byte right after a closing quote, with a task
\* waiting.
C22_Witness ==
    /\ ck.stream = <<DQ, "a", DQ, "a">>
    /\ ck.pos = 4
    /\ nut.state = "NUT_DISCONNECTED"
    /\ nut.h_dropped # {}
    /\ Kinds(nut) = <<"read", "fail", "on_failure">>

\* The byte read next is a line feed inside a quoted field.
TerminatorInQuotes ==
    /\ nut.parser.state \in {"NUT_STATE_QUOTED", "NUT_STATE_QUOTED_ESCAPE"}
    /\ ParseByte = LF

\* C23 as stated: a line feed read inside a quoted field fails the
\* connection.
C23_UnterminatedQuoteFails ==
    [][ParsePush /\ TerminatorInQuotes
       => /\ nut'.state = "NUT_DISCONNECTED"
          /\ EventsOf(nut', "on_failure") # <<>>]_vars

\* C23, amended: a line feed read inside a quoted field is taken as a byte
\* of the field: the client stays Connected in the quoted state, nothing
\* fails, and no line ends there.
C23_TerminatorKeptInField ==
    [][ParsePush /\ TerminatorInQuotes
       => /\ nut'.state = "NUT_CONNECTED"
          /\ Kinds(nut') = <<"read">>
          /\ nut'.parser.state = "NUT_STATE_QUOTED"
          /\ nut'.parser.current_field = Append(nut.parser.current_field, LF)
          /\ nut'.parser.fields = nut.parser.fields
          /\ nut'.tasks = nut.tasks]_vars

\* A line feed was read inside a quoted field, and then the closing quote:
\* the field holds the line feed and the client is still Connected.
C23_Witness ==
    /\ ck.stream = <<DQ, "a", LF, DQ>>
    /\ ck.pos = 4
    /\ nut.state = "NUT_CONNECTED"
    /\ nut.parser.state = "NUT_STATE_QUOTED_END"
    /\ nut.parser.current_field = <<"a", LF>>

----------------------------------------------------------------------------
\* WatchdogSpec: the MPD client under an owner that idles, for one set of
\* subsystems or another, and answers events as dwmstatus does, with the
\* watchdog of idle mode and a well-behaved peer.

WatchdogMasks == {{S_player}, {S_mixer, S_player}}

WatchdogStep(c, w, s) ==
    /\ c.h_next_id <= MaxWatchdogTasks + 1
    /\ mpd' = c
    /\ wire' = w
    /\ srv' = s
    /\ UNCHANGED <<proto, nut, rt, ck>>

\* The owner connects and the peer greets.
WatchdogConnect ==
    /\ mpd.state = "MPD_DISCONNECTED"
    /\ mpd.h_conns = 0
    /\ WatchdogStep(mpd_client_connect(
                        [Enter(mpd) EXCEPT !.on_failure = "mpd_on_failure",
                                           !.on_event = "mpd_on_events",
                                           !.h_conns = @ + 1],
                        TRUE, "ok", mpd.h_conns + 1).c,
                    L_greeting \o <<LF>>, SrvInit)

\* The owner enters idle mode.
WatchdogIdle ==
    /\ ApiLive
    /\ \E subsystems \in WatchdogMasks :
         WatchdogStep(mpd_client_idle(Enter(mpd), subsystems), wire, srv)

\* The watchdog of idle mode fires.
WatchdogTimeout ==
    /\ ApiLive
    /\ mpd.timeout_timer
    /\ WatchdogStep(mpd_client_on_timeout(
                        [Enter(mpd) EXCEPT !.timeout_timer = FALSE]), wire, srv)

\* The socket is ready: the client reads all that is in flight and the peer
\* receives all the client has to write.
WatchdogReady ==
    /\ ApiLive
    /\ Ready(mpd, ReadResult(wire, "SOCKET_IO_OK"))
    /\ Bind(mpd_client_on_ready(Enter(mpd), ReadResult(wire, "SOCKET_IO_OK"),
                                WriteResult("all", "SOCKET_IO_OK")),
            LAMBDA c : WatchdogStep(c, <<>>,
                                    [srv EXCEPT !.inbuf = @ \o c.h_accepted]))

\* A subsystem the client has no name for.
S_mount == <<"m", "o", "u", "n", "t">>

\* What the peer may report when something changes.
WatchdogEvents ==
    {<<S_changed \o S_kvsep \o S_mount>>,
     <<S_changed \o S_kvsep \o S_mount, S_changed \o S_kvsep \o S_player>>}

\* Something changes while the peer is in idle mode.
WatchdogNotify ==
    /\ ApiLive
    /\ srv.idle
    /\ srv.events < MaxWatchdogEvents
    /\ srv' = [srv EXCEPT !.idle = FALSE, !.events = @ + 1]
    /\ \E lines \in WatchdogEvents : wire' = wire \o SrvBytes(lines \o <<S_OK>>)
    /\ UNCHANGED <<proto, mpd, nut, rt, ck>>

WatchdogNext ==
    \/ WatchdogConnect
    \/ WatchdogIdle
    \/ WatchdogTimeout
    \/ WatchdogReady
    \/ ApiServerStep
    \/ WatchdogNotify

WatchdogSpec == ApiInit /\ [][WatchdogNext]_vars

\* The line of the idle command for a set of subsystems.
IdleLine(subsystems) == MpdSerialize(MpdIdleCommand(subsystems))

PingReplied ==
    /\ WatchdogReady
    /\ Len(mpd.tasks) >= 2
    /\ mpd.tasks[1].lines = <<S_noidle, S_ping>>
    /\ Len(mpd'.h_done) = Len(mpd.h_done) + 1

\* C28 as stated: once the reply to the watchdog's ping has been processed,
\* the client idles for the subsystems the watchdog restored, whatever the
\* owner has asked for since.
C28_StaleMask ==
    [][PingReplied
       => /\ mpd'.idling
          /\ IdleLine(mpd'.idling_subsystems) = mpd.tasks[2].lines[1]]_vars

\* C28, amended: the watchdog restores idle mode when it sends the ping, and
\* the reply to the ping changes nothing: the client idles for what it
\* idled for before the reply, and that is always what the last idle
\* command written asked for, the owner's if the owner has called Idle
\* since.
C28_LastIdleWins ==
    /\ [](mpd.idling
           => /\ mpd.h_last_line = IdleLine(mpd.idling_subsystems)
              /\ mpd.tasks # <<>>
                 => mpd.tasks[Len(mpd.tasks)].lines[
                        Len(mpd.tasks[Len(mpd.tasks)].lines)]
                    = IdleLine(mpd.idling_subsystems))
    /\ [][PingReplied
          => /\ mpd'.idling = mpd.idling
             /\ mpd'.idling_subsystems = mpd.idling_subsystems
             /\ mpd'.timeout_timer = mpd.timeout_timer]_vars

\* The watchdog fired while the client idled for one set of subsystems, the
\* owner has since called Idle for another, and the reply to the ping has
\* been processed: the client idles for the owner's set.
C28_Witness ==
    /\ mpd.idling
    /\ mpd.idling_subsystems = {S_mixer, S_player}
    /\ \E i \in 1..Len(mpd.h_done) : mpd.h_done[i].callback = "NULL"
    /\ Len(mpd.tasks) >= 2
    /\ mpd.tasks[Len(mpd.tasks) - 1].lines = <<IdleLine({S_player})>>
    /\ mpd.tasks[Len(mpd.tasks)].lines
         = <<S_noidle, IdleLine({S_mixer, S_player})>>

\* The line reports a change of a subsystem the client has a name for.
NamesSubsystem(line) ==
    \E i \in 1..Len(mpd_subsystem_names) :
        line = S_changed \o S_kvsep \o mpd_subsystem_names[i]

\* The event at position i of the last handler is the call of the idle
\* task's callback.
IdleReturns(i) ==
    /\ mpd.h_events[i].kind = "task_cb"
    /\ mpd.h_events[i].callback = "mpd_client_on_idle_return"

\* The owner's on_event is called right after the event at position i.
EventFollows(i) ==
    /\ i < Len(mpd.h_events)
    /\ mpd.h_events[i + 1].kind = "on_event"

\* on_event is only ever called from the idle task's callback, once.
EventsFromIdle ==
    \A i \in 1..Len(mpd.h_events) :
        mpd.h_events[i].kind = "on_event" => i > 1 /\ IdleReturns(i - 1)

----------------------------------------------------------------------------
\* ConnectSpec: dwmstatus and its MPD client over any number of connections.
\* What earlier connections did is forgotten when the reconnect timer fires,
\* so that the owner can reconnect for ever.

\* Descriptors the ledger counts before it stops looking.
MaxLeaked == 2

\* ck is the ledger of descriptors: those mpd_client_connect created that
\* are neither the client's socket nor closed, and the parity of the number
\* of mpd_client_connect calls.
ConnectInit ==
    /\ proto = "mpd"
    /\ mpd \in {[MpdClientInit EXCEPT !.ctx_password = b] : b \in BOOLEAN}
    /\ nut = NutClientInit
    /\ wire = <<>>
    /\ srv = SrvInit
    /\ rt = RtIdle
    /\ ck = [proto |-> "mpd", leaked |-> 0, calls |-> 0]

\* History: the counters of earlier connections start again.
Forget(c) ==
    [c EXCEPT !.h_next_id = 1, !.h_done = <<>>, !.h_called = <<>>,
              !.h_dropped = {}, !.h_conns = 0]

\* The descriptors the last handler created and left to nobody.
Unowned(c) ==
    {e.fd : e \in {x \in Range(EventsOf(c, "socket")) : x.fd # c.socket}}

ConnectReconnect ==
    /\ MpdLive
    /\ mpd.ctx_mpd_reconnect
    /\ \E unix \in BOOLEAN :
         \E how \in IF unix THEN {"ok", "socket", "connect"} ELSE {"ok"} :
           /\ WithinBounds(on_mpd_reconnect(Forget(Enter(mpd)), unix, how, 1))
           /\ mpd' = on_mpd_reconnect(Forget(Enter(mpd)), unix, how, 1)
           /\ ck.leaked + Cardinality(Unowned(mpd')) <= MaxLeaked
           /\ ck' = [ck EXCEPT !.leaked = @ + Cardinality(Unowned(mpd')),
                               !.calls = 1 - @]
    /\ wire' = <<>>
    /\ srv' = SrvInit
    /\ UNCHANGED <<proto, nut, rt>>

\* Lines the peer may send: those of Spec, and the end of one command of a
\* command list that was begun with command_list_ok_begin.
ConnectServerLines == MpdServerLines \cup {S_list_OK}

ConnectServerSend ==
    /\ MpdLive
    /\ mpd.state = "MPD_CONNECTED"
    /\ wire = <<>>
    /\ srv.sent < MaxServerLines
    /\ \E line \in ConnectServerLines : wire' = line \o <<LF>>
    /\ srv' = [srv EXCEPT !.sent = @ + 1]
    /\ UNCHANGED <<proto, mpd, nut, rt, ck>>

ConnectNext ==
    \/ ConnectReconnect
    \/ MpdConnectorConnected
    \/ MpdConnectorFailure
    \/ ConnectServerSend
    \/ MpdReady
    \/ MpdTimeout
    \/ MpdKey

ConnectSpec == ConnectInit /\ [][ConnectNext]_vars

\* The poller runs a timer that is due: the reconnect timer, once armed,
\* fires.
ConnectFairSpec == ConnectSpec /\ WF_vars(ConnectReconnect)

----------------------------------------------------------------------------
\* Properties of ConnectSpec: reconnecting and descriptors.

\* The last handler was on_mpd_reconnect and mpd_client_connect returned
\* false.
ConnectFailed ==
    /\ mpd.h_conns = 1
    /\ mpd.state = "MPD_DISCONNECTED"
    /\ EventsOf(mpd, "fail") = <<>>

\* The last handler ended in a failure: OnFailure, or a failed Connect.
MpdFailure ==
    ~mpd.h_aborted /\ (EventsOf(mpd, "on_failure") # <<>> \/ ConnectFailed)

\* After a failure the client core is Disconnected, attempts nothing, and
\* the owner's timer is armed.
LeftToOwner ==
    MpdFailure =>
        /\ mpd.state = "MPD_DISCONNECTED"
        /\ ~mpd.connector
        /\ mpd.socket = -1
        /\ mpd.ctx_mpd_reconnect

\* C31 as stated: after a failure the core stays Disconnected and the timer
\* is armed, each failure is followed by a new Connect call, and the client
\* never remains Disconnected for ever.
C31_NeverDisconnectedForever ==
    /\ []LeftToOwner
    /\ \A k \in {0, 1} : (MpdFailure /\ ck.calls = k) ~> (ck.calls = 1 - k)
    /\ (~mpd.h_aborted /\ mpd.state = "MPD_DISCONNECTED")
           ~> (mpd.state # "MPD_DISCONNECTED")

\* C31: after a failure the client core is Disconnected with no connector
\* and no socket and the reconnect timer is armed; under fairness of that
\* timer every failure is followed by a new Connect call.  (A Connect call
\* that fails synchronously leaves the client Disconnected, so the client
\* may remain Disconnected for ever.)
C31_FailureLeadsToConnect ==
    /\ []LeftToOwner
    /\ \A k \in {0, 1} : (MpdFailure /\ ck.calls = k) ~> (ck.calls = 1 - k)

\* A Connect call has failed at socket () after an earlier one had failed
\* at connect ().
C31_Witness ==
    /\ ConnectFailed
    /\ EventsOf(mpd, "socket") = <<>>
    /\ ck.leaked = 1

----------------------------------------------------------------------------
\* Properties of Spec: the output stream, resources and the watchdog.

\* The lines of the tasks the step has added to the queue of the MPD client.
NewTaskLines ==
    Flatten([i \in 1..Len(mpd'.tasks) |->
                 IF mpd'.tasks[i].id >= mpd.h_next_id
                 THEN mpd'.tasks[i].lines ELSE <<>>])

\* The lines serialized since the connection was made or the last task was
\* added, before the step and after it.
SerializedBefore == IF mpd.state = "MPD_CONNECTED" THEN mpd.h_pending ELSE <<>>
SerializedAfter == NewTaskLines \o mpd'.h_pending

\* The command lines the step has serialized, in send order.
StepLines ==
    SubSeq(SerializedAfter, Len(SerializedBefore) + 1, Len(SerializedAfter))

\* C32: in every handler that leaves the MPD client Connected, the bytes the
\* socket accepted followed by the output buffer afterwards are the output
\* buffer before followed by the command lines the handler serialized, in
\* send order; so the bytes accepted since the connection was made followed
\* by the buffer are always the concatenation of all serialized lines.
C32_OutputPreserved ==
    [][(/\ proto = "mpd"
        /\ mpd' # mpd
        /\ mpd'.state = "MPD_CONNECTED"
        /\ ~mpd'.h_aborted)
       => /\ IsPrefix(SerializedBefore, SerializedAfter)
          /\ mpd'.h_accepted \o mpd'.write_buffer
               = (IF mpd.state = "MPD_CONNECTED" THEN mpd.write_buffer
                  ELSE <<>>) \o SrvBytes(StepLines)]_vars

\* A write was cut short while two tasks wait: part of the buffer was
\* accepted and part is left.
C32_Witness ==
    /\ proto = "mpd"
    /\ mpd.state = "MPD_CONNECTED"
    /\ mpd.h_accepted # <<>>
    /\ mpd.write_buffer # <<>>
    /\ Len(mpd.tasks) >= 2

\* What the MPD client owns in each state.
MpdResources(c) ==
    /\ c.socket # -1 <=> c.state = "MPD_CONNECTED"
    /\ c.connector <=> c.state = "MPD_CONNECTING"
    /\ c.state = "MPD_DISCONNECTED"
         => /\ c.socket = -1
            /\ ~c.connector
            /\ c.read_buffer = <<>>
            /\ c.write_buffer = <<>>
            /\ c.tasks = <<>>

\* C33: between handlers the MPD client has a socket if and only if it is
\* Connected and a connector if and only if it is Connecting; Disconnected,
\* it has neither, and its buffers and its task queue are empty.
C33_ConnectionResources == MpdLive => MpdResources(mpd)

\* The client is Disconnected again after a failure that dropped a task and
\* unsent output.
C33_Witness ==
    /\ MpdLive
    /\ mpd.state = "MPD_DISCONNECTED"
    /\ \E i \in 1..Len(mpd.h_events) :
         /\ mpd.h_events[i].kind = "fail"
         /\ mpd.h_events[i].before.write_buffer # <<>>
         /\ mpd.h_events[i].before.tasks # <<>>

\* C34: between handlers the watchdog timer of the MPD client is armed if
\* and only if the idling flag is set, and then the client is Connected and
\* no command list is open: the watchdog handler starts with idling set and
\* in_list clear.
C34_WatchdogCoupling ==
    MpdLive =>
        /\ mpd.timeout_timer <=> mpd.idling
        /\ mpd.timeout_timer => mpd.state = "MPD_CONNECTED" /\ ~mpd.in_list

\* The watchdog has fired and idle mode was restored: the handler sent
\* 'noidle', 'ping' and 'idle', and the timer is armed again.
C34_Witness ==
    /\ MpdLive
    /\ mpd.timeout_timer
    /\ mpd.idling
    /\ \E i \in 1..Len(mpd.tasks) : mpd.tasks[i].lines = <<S_noidle, S_ping>>

----------------------------------------------------------------------------
\* Properties of WatchdogSpec: cancelling idle mode.

\* The identifiers of the idle tasks that await a response before the step.
PendingIdles ==
    {mpd.tasks[i].id : i \in {k \in 1..Len(mpd.tasks) : IsIdleTask(k)}}

\* The last idle command sent before the step still awaits its response
\* when the step is over.
LastIdlePending ==
    /\ PendingIdles # {}
    /\ (CHOOSE m \in PendingIdles : \A n \in PendingIdles : n <= m)
          \in TaskIds(mpd'.tasks)

\* A handler has run and the MPD client is Connected afterwards.
CancelStep ==
    /\ mpd' # mpd
    /\ mpd.state = "MPD_CONNECTED"
    /\ mpd'.state = "MPD_CONNECTED"
    /\ ~mpd'.h_aborted

\* C35 as stated: a 'noidle' line is written only while the response to the
\* last 'idle' sent has not been received.
C35_NoStrayCancel ==
    [][CancelStep
       => \A j \in 1..Len(StepLines) :
              StepLines[j] = S_noidle
              => IF j = 1 THEN LastIdlePending
                 ELSE IsIdleLine(StepLines[j - 1])]_vars

\* C35, amended: a 'noidle' line is written exactly when a command is
\* serialized while the idling flag is set, which idle sets and only the
\* serializer and a reset clear: a handler that writes nothing leaves the
\* flag as it was, whether or not it dispatched the response to 'idle'.
C35_CancelFollowsFlag ==
    [][CancelStep
       => /\ IsPrefix(SerializedBefore, SerializedAfter)
          /\ \A j \in 1..Len(StepLines) :
                 StepLines[j] = S_noidle
                 <=> IF j = 1 THEN mpd.idling
                     ELSE IsIdleLine(StepLines[j - 1])
          /\ StepLines = <<>> => mpd'.idling = mpd.idling]_vars

\* The response to 'idle' was dispatched, on_event had the owner send
\* commands, and their lines start with 'noidle'.
C35_Witness ==
    /\ mpd.state = "MPD_CONNECTED"
    /\ \E i \in 1..Len(mpd.h_events) - 1 : IdleReturns(i) /\ EventFollows(i)
    /\ mpd.tasks # <<>>
    /\ mpd.tasks[1].lines # <<>>
    /\ mpd.tasks[1].lines[1] = S_noidle

----------------------------------------------------------------------------
\* Properties of ConnectSpec: what the peer's input can do.

\* C36 as stated: whatever the peer has sent, a readiness handler of the MPD
\* client ends with the client Connected, or Disconnected with OnFailure
\* called; no hard_assert has failed.
C36_NoInputAborts ==
    EventsOf(mpd, "read") # <<>>
    => /\ ~mpd.h_aborted
       /\ \/ mpd.state = "MPD_CONNECTED"
          \/ /\ mpd.state = "MPD_DISCONNECTED"
             /\ EventsOf(mpd, "on_failure") # <<>>

----------------------------------------------------------------------------
\* Properties of Spec: sessions.

\* A queue without the identifiers of the history.
SansIds(tasks) ==
    [i \in 1..Len(tasks) |->
        [callback |-> tasks[i].callback, lines |-> tasks[i].lines]]

\* All of the MPD client that bears on what it does next, but for the number
\* of its descriptor.
MpdSession(c) ==
    [Observe(c) EXCEPT !.socket = (c.socket # -1), !.tasks = SansIds(c.tasks)]

\* The same of the NUT client; of the parser, its state and what it makes
\* of the next byte.
NutSession(c) ==
    [seen |-> [NutObserve(c) EXCEPT !.socket = (c.socket # -1),
                                    !.tasks = SansIds(c.tasks)],
     pushed |-> [ch \in ParseBytes |-> nut_parser_push(c.parser, ch)]]

\* The clients of dwmstatus when their first connection is made.
MpdFirstSession(password) ==
    MpdSession(on_mpd_reconnect([MpdClientInit EXCEPT !.ctx_password = password],
                                TRUE, "ok", 1))

NutFirstSession == NutSession(NutChunkStart)

\* The step makes a connection.
MpdConnects ==
    proto = "mpd" /\ mpd.state # "MPD_CONNECTED" /\ mpd'.state = "MPD_CONNECTED"

NutConnects ==
    proto = "nut" /\ nut.state # "NUT_CONNECTED" /\ nut'.state = "NUT_CONNECTED"

\* C37: a client that has just connected is as it was when it first
\* connected, whatever the earlier connections left behind: buffers, data
\* lines, greeting, list and idle flags, queue, and for the NUT client
\* what its parser makes of the next byte; and no task dropped by a reset
\* is ever completed or has its callback called.
C37_SessionIsolation ==
    /\ [](DoneIds(Client) \cap Client.h_dropped = {})
    /\ [](Range(Client.h_called) \cap Client.h_dropped = {})
    /\ [][/\ MpdConnects => MpdSession(mpd') = MpdFirstSession(mpd.ctx_password)
          /\ NutConnects => NutSession(nut') = NutFirstSession]_vars

\* The NUT client has connected again, and its parser still holds fields of
\* a line the old connection did not finish.
C37_Witness ==
    /\ proto = "nut"
    /\ nut.state = "NUT_CONNECTED"
    /\ EventsOf(nut, "on_connected") # <<>>
    /\ nut.h_conns = 2
    /\ nut.h_dropped # {}
    /\ nut.parser.fields # <<>>

----------------------------------------------------------------------------
\* StatusSpec: one poll cycle of dwmstatus with a NUT server that answers
\* as upsd does: the list of the UPSes, the variables of each, the logout.

\* UPSes the server knows of.
MaxUps == 2

\* The variables a UPS may report: on line and full, on battery, without
\* its runtime, and under load.
StatusDicts ==
    {<<[key |-> K_ups_status, value |-> <<"O", "L">>],
       [key |-> K_battery_charge, value |-> <<"1", "0", "0">>],
       [key |-> K_battery_runtime, value |-> <<"6", "0">>]>>,
     <<[key |-> K_ups_status, value |-> <<"O", "B">>],
       [key |-> K_battery_charge, value |-> <<"5", "0">>],
       [key |-> K_battery_runtime, value |-> <<"6", "0">>]>>,
     <<[key |-> K_ups_status, value |-> <<"O", "L">>],
       [key |-> K_battery_charge, value |-> <<"1", "0", "0">>]>>,
     <<[key |-> K_ups_status, value |-> <<"O", "L">>],
       [key |-> K_battery_charge, value |-> <<"1", "0", "0">>],
       [key |-> K_battery_runtime, value |-> <<"6", "0">>],
       [key |-> K_ups_load, value |-> <<"7", "0">>]>>}

\* The name of the UPS number i.
StatusUpsName(i) == <<<<"u", "v", "w", "x">>[i]>>

\* The lines of the server's answers for the UPSes with these variables.
StatusVarLines(name, dict) ==
    <<N_BEGIN \o <<SP>> \o N_LIST \o <<SP>> \o N_VAR \o <<SP>> \o name>>
    \o [k \in 1..Len(dict) |->
           N_VAR \o <<SP>> \o name \o <<SP>> \o dict[k].key
           \o <<SP, DQ>> \o dict[k].value \o <<DQ>>]
    \o <<N_END \o <<SP>> \o N_LIST \o <<SP>> \o N_VAR \o <<SP>> \o name>>

StatusLines(dicts) ==
    <<N_BEGIN \o <<SP>> \o N_LIST \o <<SP>> \o N_UPS>>
    \o [i \in 1..Len(dicts) |->
           N_UPS \o <<SP>> \o StatusUpsName(i) \o <<SP, DQ, "d", DQ>>]
    \o <<N_END \o <<SP>> \o N_LIST \o <<SP>> \o N_UPS>>
    \o Flatten([i \in 1..Len(dicts) |->
                   StatusVarLines(StatusUpsName(i), dicts[i])])
    \o <<S_OK \o <<SP, "G", "o", "o", "d", "b", "y", "e">>>>

StatusInit ==
    /\ proto = "nut"
    /\ mpd = MpdClientInit
    /\ nut = NutChunkStart
    /\ wire = <<>>
    /\ srv = SrvInit
    /\ rt = RtIdle
    /\ ck \in {[proto |-> "nut", stream |-> StatusLines(dicts), pos |-> 0,
                 split |-> FALSE] :
                 dicts \in UNION {[1..n -> StatusDicts] : n \in 0..MaxUps}}

\* The next line of the server arrives and the client reads it.
StatusRead ==
    /\ nut.state = "NUT_CONNECTED"
    /\ ~nut.h_aborted
    /\ ck.pos < Len(ck.stream)
    /\ nut' = nut_client_on_ready(
                  Enter(nut),
                  ReadResult(ck.stream[ck.pos + 1] \o <<LF>>, "SOCKET_IO_OK"),
                  WriteResult("all", "SOCKET_IO_OK"))
    /\ ck' = [ck EXCEPT !.pos = @ + 1]
    /\ UNCHANGED <<proto, mpd, wire, srv, rt>>

StatusSpec == StatusInit /\ [][StatusRead]_vars

\* The last handler called nut_on_logout_response with a success.
LoggedOut ==
    \E i \in 1..Len(nut.h_events) :
        /\ nut.h_events[i].kind = "task_cb"
        /\ nut.h_events[i].callback = "nut_on_logout_response"
        /\ nut.h_events[i].response.success

\* The summaries of the UPSes the poll cycle has stored, in the order of the
\* iteration.
Summaries == NutUpsList(nut.ctx_nut_ups_info, 1, <<>>)

\* C38 as stated: after a successful LOGOUT response the status is the
\* summaries of the UPSes, each once, in the order of the iteration, joined
\* by three spaces, and no status if there is no summary; nut_success is
\* set only by that response.
C38_StatusComposition ==
    /\ LoggedOut
       => /\ nut.ctx_nut_success
          /\ nut.ctx_nut_status = IF Summaries = <<>> THEN NULL
                                  ELSE JoinWith(Summaries, S_ups_sep)
    /\ nut.ctx_nut_success
       => \E i \in 1..Len(nut.h_done) :
              nut.h_done[i].callback = "nut_on_logout_response"

----------------------------------------------------------------------------
\* Properties of ParseSpec: complete lines.

\* The parser has seen nothing but white space since the last line ended.
BlankSoFar ==
    \/ nut.parser.state = "NUT_STATE_START_LINE"
    \/ nut.parser.state = "NUT_STATE_BETWEEN" /\ nut.parser.fields = <<>>

\* C39: whenever nut_parser_push reports a complete line, the line has at
\* least one field and the parser is back in START_LINE, so the assertion
\* of nut_client_parse_line never fails; white space on a line without
\* fields, the line feed included, is skipped: no line, no error, and the
\* connection stays.
C39_LineHasFields ==
    /\ []~nut.h_aborted
    /\ [][ParsePush
          => Bind(nut_parser_push(nut.parser, ParseByte),
                  LAMBDA pushed :
                      /\ pushed.res = 1
                           => /\ pushed.parser.fields # <<>>
                              /\ pushed.parser.state = "NUT_STATE_START_LINE"
                              /\ EventsOf(nut', "line") # <<>>
                      /\ BlankSoFar /\ isspace_ascii(ParseByte)
                           => /\ pushed.res = 0
                              /\ pushed.parser.fields = <<>>
                              /\ pushed.parser.current_field = <<>>
                              /\ EventsOf(nut', "line") = <<>>
                              /\ nut'.state = "NUT_CONNECTED")]_vars

\* After an empty line, a line of one empty quoted field was reported.
C39_Witness ==
    /\ ck.stream = <<LF, DQ, DQ, LF>>
    /\ ck.pos = 4
    /\ ~nut.h_aborted
    /\ nut.parser.fields = << <<>> >>
    /\ nut.parser.state = "NUT_STATE_START_LINE"
    /\ Len(EventsOf(nut, "line")) = 1
    /\ EventsOf(nut, "line")[1].line = << <<>> >>

----------------------------------------------------------------------------
\* Properties of ConnectSpec: descriptors.

\* C40: no socket leak on connect: every descriptor that mpd_client_connect
\* created is, when the call has returned, the client's own socket or
\* closed; over any number of failed attempts the number of open
\* descriptors the client created and does not own stays zero.
C40_NoSocketLeak ==
    /\ Unowned(mpd) = {}
    /\ ck.leaked = 0

====
